---- MODULE Spec2Model ----
(***************************************************************************)
(* Conversational state engine of the Nova support chatbot (novars3.py):   *)
(* the FastMCP context tracker, the intent classifier, the topical filter  *)
(* and the /api/chat request handler that drives them.                     *)
(*                                                                         *)
(* Texts are TLA+ strings; every test the program makes on a text          *)
(* (substring search, lower-casing, stripping, suffix test) is computed    *)
(* character by character on the string.                                   *)
(***************************************************************************)
EXTENDS Integers, Sequences, FiniteSets, TLC

(***************************************************************************)
(* Bounds of the model.                                                    *)
(***************************************************************************)
\* turns recorded by direct tracker calls
MaxMemory == 3
\* turns recorded while the classifier and the scope filter are exercised
MaxClassified == 1
\* requests accepted by /api/chat
MaxRequests == 2
\* clients that may have a request in flight at the same time
NumClients == 2
\* turns recorded in the window specification (must exceed the window size)
MaxWindowMemory == 12
MaxSuggestMemory == 3

(***************************************************************************)
(* Program constants.                                                      *)
(***************************************************************************)
\* context window capacity, update_context: "if len(self.context_window) > 10"
WindowSize == 10

None == "None"

(***************************************************************************)
(* Fixed texts of the program.  An emoji is written as its name between    *)
(* colons: the texts are only searched for words and punctuation.          *)
(***************************************************************************)
\* get_intro_response
IntroMobile ==
    "Hi! I'm Nova :wave:\nYour guide for the Novarsis SEO Tool. How can I help you today?"
IntroWeb ==
    "Hello! I'm Nova, your guide for the Novarsis SEO Tool. How can I help you today?"

\* chat and get_ai_response, reply to "no" after the closing question
ContactBlock == "Contact Us:\nsupport@novarsistech.com"

\* chat and get_ai_response, reply to "yes" after the closing question
Acknowledgement ==
    "Great! I'm glad I could help. Feel free to ask if you have more questions about using the Novarsis SEO Tool! :rocket:"

\* get_ai_response, "Only filter if MCP says we should"
RedirectMessage ==
    "Sorry, I only help with navigating and using the Novarsis SEO Tool.\nPlease let me know if you have any questions about the tool?"

\* get_ai_response, "Check if API returned an error"
ServiceFallback ==
    "I'm having trouble connecting to the AI service right now. Please try again in a moment, or contact support@novarsistech.com for assistance."

\* chat, "Check if the response ends with"
ClosingQuestion == "Have I resolved your query?"

\* chat, greeting followed by more content
EnhancedPrefix ==
    "[USER HAS GREETED WITH PROBLEM - SKIP GREETING AND DIRECTLY ADDRESS THE ISSUE]\n"

\* chat and get_ai_response, "Special handling for image attachments"
ImageOnlyMessage == "Please analyze this screenshot."
ImageSuffix == ". Please analyze this screenshot."
ImageSeoSuffix ==
    ". This screenshot shows SEO-related issues. Please help me understand and fix them."

\* get_tool_specific_response, in the order of its branches
ToolResponses ==
    <<"You can find your reports in the Novarsis dashboard under the 'Reports' tab. Click on 'Reports' in the top navigation bar to view all your SEO analysis reports and data.",
      "To check your keyword rankings, go to the 'Keyword Research' section in the left sidebar of your Novarsis dashboard. You'll find all your tracked keywords and their current positions there.",
      "For billing and subscription details, click on your profile icon in the top right corner of the Novarsis dashboard and select 'Account Settings'. You'll find all your billing information, current plan, and payment history there.",
      "To manage your websites, go to the 'Website Analysis' section in the left sidebar of your Novarsis dashboard. You can add, remove, or edit your websites there.",
      "For API access and integration details, navigate to 'Settings' in the left sidebar, then click on 'API Configuration'. You'll find your API key and integration documentation there.",
      "To access your account settings, click on your profile icon in the top right corner of the Novarsis dashboard and select 'Settings' from the dropdown menu.",
      "For this information, navigate to the relevant section in your Novarsis dashboard. If you need help finding a specific feature, just let me know what you're looking for!">>

(***************************************************************************)
(* Texts the tracker, the classifier and the scope filter are driven with. *)
(***************************************************************************)
\* user turns that are recorded
UserTexts ==
    {"no", "this is URGENT, I am frustrated", "I am angry, please check",
     "thanks, explain the dashboard settings", "setting up the dashboard", "pizza"}

\* assistant turns that are recorded
BotTexts ==
    {"Open the Reports tab.", "How can I help you today?",
     "Did that work? Let me know.", "Do you need more help?",
     "Follow these steps. Need more help?"}

\* user turns recorded before suggestions are asked for
SuggestUserTexts == {"urgent", "so annoyed", "the report"}

\* assistant turns recorded before suggestions are asked for
SuggestBotTexts == {"Find it here."}

\* inputs of /api/typing-suggestions
SuggestInputs ==
    {"ok", "  a ", "where is the report", "fix bug", "login failed", "export pdf",
     "pizza party"}

\* messages of /api/mobile/chat
MobileInputs == {"", "where is the report", "setup email"}

\* responses the quick action buttons are chosen for
QuickActionTexts ==
    {"Done.", "Contact support.",
     "Open the dashboard, the report and the analysis, or contact support."}

\* utterances handed to the filter decision
FilterTexts ==
    {"no", "yes but not now", "tell me more", "how do I fix this error",
     "please assist me", "pizza"}

\* utterances handed to the classifier
ClassifyTexts ==
    {"no", "NO", "I know", "not working", "how do I fix this error", "yes but not now",
     "it is broken", "please assist me", "assist me with this error", "an error, thanks",
     "Thank You", "thanks, explain the dashboard settings", "tell me more", "pizza"}

\* queries handed to the scope filter
ScopeQueries ==
    {"hi", "Good Morning", "this pizza", "thanks for the pizza", "pizza recipe",
     "movie about seo", "football scan", "what is the weather", "seo", "API",
     " Dashboard ", "the page has an issue", "my cat", "tell me more",
     "I appreciate the detail"}

WindowUserTexts == {"where is the report"}
WindowBotTexts == {"Anything else?"}

(***************************************************************************)
(* Requests /api/chat is driven with.                                      *)
(***************************************************************************)
SessionIds == {"A", "B"}

\* request bodies: message, image_data (attached or not), platform
Requests ==
    {[message |-> "hi", image_data |-> FALSE, platform |-> "mobile"],
     [message |-> "no", image_data |-> FALSE, platform |-> "web"],
     [message |-> "where is the report", image_data |-> FALSE, platform |-> "web"],
     [message |-> "pizza", image_data |-> FALSE, platform |-> "web"],
     [message |-> "check my plan", image_data |-> FALSE, platform |-> "mobile"],
     [message |-> "hello, this is urgent", image_data |-> FALSE, platform |-> "web"],
     [message |-> "Thanks", image_data |-> FALSE, platform |-> "web"],
     [message |-> "no", image_data |-> TRUE, platform |-> "web"],
     [message |-> "", image_data |-> TRUE, platform |-> "web"]}

\* texts get_ai_response returns after call_groq_api: the generator output
\* once rewritten, or the fixed text that replaces a failure
GeneratorReplies ==
    {"Open the Reports tab. Have I resolved your query?",
     "Our team will review this.",
     ServiceFallback}

(***************************************************************************)
(* String primitives of Python used by the program.                        *)
(*                                                                         *)
(* lower() and the substring test are computed on demand (LowerDirect,     *)
(* ContainsDirect); for the texts below the results are tabulated once     *)
(* (LowerOf, SubstringsOf) and looked up.                                  *)
(***************************************************************************)
\* the letters str.lower() changes, with their images
LowerMap ==
    [A |-> "a", B |-> "b", C |-> "c", D |-> "d", E |-> "e", F |-> "f", G |-> "g",
     H |-> "h", I |-> "i", J |-> "j", K |-> "k", L |-> "l", M |-> "m", N |-> "n",
     O |-> "o", P |-> "p", Q |-> "q", R |-> "r", S |-> "s", T |-> "t", U |-> "u",
     V |-> "v", W |-> "w", X |-> "x", Y |-> "y", Z |-> "z"]

CharAt(s, i) == SubSeq(s, i, i)

\* str.lower() on one character
LowerChar(c) == IF c \in DOMAIN LowerMap THEN LowerMap[c] ELSE c

\* str.lower() on the characters of s from position i on
RECURSIVE LowerFrom(_, _)
LowerFrom(s, i) ==
    IF i > Len(s) THEN "" ELSE LowerChar(CharAt(s, i)) \o LowerFrom(s, i + 1)

\* the length of the pieces a long text is lower-cased in
ChunkLen == 32

\* str.lower() on s from position i on, piece by piece
RECURSIVE LowerChunks(_, _)
LowerChunks(s, i) ==
    IF i > Len(s) THEN ""
    ELSE LET j == IF i + ChunkLen - 1 < Len(s) THEN i + ChunkLen - 1 ELSE Len(s)
         IN LowerFrom(SubSeq(s, i, j), 1) \o LowerChunks(s, j + 1)

\* str.lower(), computed
LowerDirect(s) == LowerChunks(s, 1)

\* "w in s" on strings, computed: w occurs in s as a contiguous substring
ContainsDirect(s, w) ==
    \E i \in 1..(Len(s) - Len(w) + 1) : SubSeq(s, i, i + Len(w) - 1) = w

(***************************************************************************)
(* Regular expressions of Python's re module, as far as the program uses   *)
(* them.  A text is a sequence of characters; an expression is a sequence  *)
(* of nodes; a match is tried the way re tries it, alternatives and        *)
(* repetitions in their order of preference, and the first one that        *)
(* succeeds is the match.                                                  *)
(***************************************************************************)
Lowercase ==
    {"a", "b", "c", "d", "e", "f", "g", "h", "i", "j", "k", "l", "m", "n", "o", "p", "q", "r",
     "s", "t", "u", "v", "w", "x", "y", "z"}
Uppercase ==
    {"A", "B", "C", "D", "E", "F", "G", "H", "I", "J", "K", "L", "M", "N", "O", "P", "Q", "R",
     "S", "T", "U", "V", "W", "X", "Y", "Z"}
Digits == {"0", "1", "2", "3", "4", "5", "6", "7", "8", "9"}
Letters == Lowercase \cup Uppercase
\* \w, \s
WordChars == Letters \cup Digits \cup {"_"}
Whitespace == {" ", "\t", "\n", "\r", "\f"}

\* the character U+2022, which no text of the model holds
Bullet == "<bullet>"

UpperMap == [c \in Lowercase |-> CHOOSE u \in Uppercase : LowerMap[u] = c]
UpperChar(c) == IF c \in Lowercase THEN UpperMap[c] ELSE c

\* the characters of a string, and the string of a sequence of characters
Chars(s) == [i \in 1..Len(s) |-> SubSeq(s, i, i)]

RECURSIVE Str(_)
Str(t) ==
    IF Len(t) = 0 THEN ""
    ELSE IF Len(t) = 1 THEN t[1]
    ELSE Str(SubSeq(t, 1, Len(t) \div 2)) \o Str(SubSeq(t, Len(t) \div 2 + 1, Len(t)))

\* the nodes of an expression
Ch(s) == [k |-> "set", s |-> s, neg |-> FALSE]
NotCh(s) == [k |-> "set", s |-> s, neg |-> TRUE]
Rep(body, min, max) == [k |-> "rep", body |-> body, min |-> min, max |-> max, greedy |-> TRUE]
Lazy(body, min, max) == [k |-> "rep", body |-> body, min |-> min, max |-> max, greedy |-> FALSE]
Grp(n, body) == [k |-> "grp", n |-> n, body |-> body]
Alt(alts) == [k |-> "alt", alts |-> alts]
At(w) == [k |-> "at", w |-> w]
Ahead(body) == [k |-> "look", behind |-> 0, neg |-> FALSE, body |-> body]
NotAhead(body) == [k |-> "look", behind |-> 0, neg |-> TRUE, body |-> body]
NotBehind(width, body) == [k |-> "look", behind |-> width, neg |-> TRUE, body |-> body]
\* a literal: the characters of t one after the other, letter case ignored
\* or not
Literal(t, ignorecase) == <<[k |-> "word", w |-> t, ignorecase |-> ignorecase]>>
Word(s, ignorecase) == Literal(Chars(s), ignorecase)
\* no bound on a repetition
Inf == 1000000

\* the groups an expression may have, and a match's record of none of them
MaxGroups == 4
NoGroups == [g \in 1..MaxGroups |-> <<0, 0>>]

\* one character of a node of kind "set"
Accepts(node, c) == (c \in node.s) # node.neg

\* \b at position pos of t
Between(word, t, pos) ==
    (pos > 1 /\ t[pos - 1] \in word) # (pos <= Len(t) /\ t[pos] \in word)

AtBoundary(t, pos) == Between(WordChars, t, pos)

\* two characters are the same, letter case ignored or not
Folded(map, a, b) ==
    (IF a \in DOMAIN map THEN map[a] ELSE a) = (IF b \in DOMAIN map THEN map[b] ELSE b)

SameChar(a, b, ignorecase) == a = b \/ (ignorecase /\ Folded(LowerMap, a, b))

\* the number of characters from pos on that the set node accepts, max at
\* most; the text is looked at in pieces of ScanLen characters
ScanLen == 16

\* the end of the piece that starts at pos
PieceEnd(t, pos) == IF pos + ScanLen - 1 < Len(t) THEN pos + ScanLen - 1 ELSE Len(t)

\* the first position of pos..last the set node does not accept, last + 1
\* when there is none
FirstStop(stops, last) ==
    IF stops = {} THEN last + 1 ELSE CHOOSE i \in stops : \A j \in stops : i <= j

RECURSIVE RunLength(_, _, _, _)
RECURSIVE RunOn(_, _, _, _, _, _)
RunLength(node, t, pos, max) ==
    RunOn(FirstStop({i \in pos..PieceEnd(t, pos) : ~Accepts(node, t[i])}, PieceEnd(t, pos)) - pos,
          PieceEnd(t, pos), node, t, pos, max)

\* RunLength when n characters of the piece pos..last are accepted
RunOn(n, last, node, t, pos, max) ==
    IF n >= max THEN max
    ELSE IF pos + n <= last \/ last = Len(t) THEN n
    ELSE n + RunLength(node, t, pos + n, max - n)

RECURSIVE MatchSeq(_, _, _, _, _)
RECURSIVE MatchNode(_, _, _, _)
RECURSIVE MatchRest(_, _, _, _, _, _)
RECURSIVE MatchAlts(_, _, _, _, _)
RECURSIVE MatchRep(_, _, _, _, _)
RECURSIVE MatchMore(_, _, _, _, _)

\* MatchSeq of nodes k.. after each of the ways from..to found for the node
\* before
MatchRest(found, from, to, re, k, t) ==
    IF from > to THEN << >>
    ELSE IF from = to THEN MatchSeq(re, k, t, found[from].pos, found[from].groups)
    ELSE MatchRest(found, from, (from + to) \div 2, re, k, t)
            \o MatchRest(found, (from + to) \div 2 + 1, to, re, k, t)

MatchEach(found, re, k, t) == MatchRest(found, 1, Len(found), re, k, t)

\* the ways nodes k.. of re match t from pos on, as <<end, groups>>, the
\* preferred way first
MatchSeq(re, k, t, pos, groups) ==
    IF k > Len(re) THEN <<[pos |-> pos, groups |-> groups]>>
    ELSE MatchEach(MatchNode(re[k], t, pos, groups), re, k + 1, t)

\* the ways found for the body of group n, which began at pos
Grouped(found, n, pos) ==
    [i \in 1..Len(found) |->
        [pos |-> found[i].pos,
         groups |-> [found[i].groups EXCEPT ![n] = <<pos, found[i].pos>>]]]

\* a lookahead or lookbehind at pos, found being the ways its body matches
Looked(found, node, pos, groups) ==
    IF (IF node.behind = 0 THEN Len(found) > 0
        ELSE \E i \in 1..Len(found) : found[i].pos = pos) # node.neg
    THEN <<[pos |-> pos, groups |-> groups]>> ELSE << >>

\* the ways a repetition of a set matches when n characters are accepted
Runs(n, node, pos, groups) ==
    IF n < node.min THEN << >>
    ELSE [i \in 1..(n - node.min + 1) |->
             [pos |-> IF node.greedy THEN pos + n - (i - 1) ELSE pos + node.min + (i - 1),
              groups |-> groups]]

MatchNode(node, t, pos, groups) ==
    IF node.k = "set"
    THEN IF pos <= Len(t) /\ Accepts(node, t[pos])
         THEN <<[pos |-> pos + 1, groups |-> groups]>> ELSE << >>
    ELSE IF node.k = "word"
    THEN IF /\ pos + Len(node.w) - 1 <= Len(t)
            /\ \A j \in 1..Len(node.w) : SameChar(t[pos + j - 1], node.w[j], node.ignorecase)
         THEN <<[pos |-> pos + Len(node.w), groups |-> groups]>> ELSE << >>
    ELSE IF node.k = "at"
    THEN IF \/ node.w = "b" /\ AtBoundary(t, pos)
            \/ node.w = "start" /\ pos = 1
            \/ node.w = "end" /\ (pos = Len(t) + 1 \/ (pos = Len(t) /\ t[pos] = "\n"))
         THEN <<[pos |-> pos, groups |-> groups]>> ELSE << >>
    ELSE IF node.k \in {"grp", "look"}
    THEN IF pos - (IF node.k = "look" THEN node.behind ELSE 0) < 1
         THEN Looked(<< >>, node, pos, groups)
         ELSE IF node.k = "grp"
         THEN Grouped(MatchSeq(node.body, 1, t, pos, groups), node.n, pos)
         ELSE Looked(MatchSeq(node.body, 1, t, pos - node.behind, groups), node, pos, groups)
    ELSE IF node.k = "alt"
    THEN MatchAlts(node.alts, 1, t, pos, groups)
    ELSE IF Len(node.body) = 1 /\ node.body[1].k = "set"
    THEN Runs(RunLength(node.body[1], t, pos, node.max), node, pos, groups)
    ELSE MatchRep(node, t, pos, groups, 0)

MatchAlts(alts, i, t, pos, groups) ==
    IF i > Len(alts) THEN << >>
    ELSE MatchSeq(alts[i], 1, t, pos, groups) \o MatchAlts(alts, i + 1, t, pos, groups)

\* the ways of a repetition in its order of preference: more repetitions
\* first when it is greedy
Preferred(greedy, more, stop) == IF greedy THEN more \o stop ELSE stop \o more

\* a repetition that has matched its body count times
MatchRep(node, t, pos, groups, count) ==
    Preferred(node.greedy,
              IF count < node.max
              THEN MatchMore(MatchSeq(node.body, 1, t, pos, groups), 1, node, t, count + 1)
              ELSE << >>,
              IF count >= node.min THEN <<[pos |-> pos, groups |-> groups]>> ELSE << >>)

MatchMore(found, i, node, t, count) ==
    IF i > Len(found) THEN << >>
    ELSE MatchRep(node, t, found[i].pos, found[i].groups, count)
            \o MatchMore(found, i + 1, node, t, count)

\* the characters a match of nodes k.. can start with; any is TRUE when every
\* character can
RECURSIVE First(_, _)
First(re, k) ==
    IF k > Len(re) THEN [any |-> TRUE, s |-> {}]
    ELSE LET node == re[k] IN
         IF node.k = "set" THEN [any |-> node.neg, s |-> node.s]
         ELSE IF node.k = "word"
         THEN IF Len(node.w) = 0 THEN First(re, k + 1)
              ELSE [any |-> FALSE,
                    s |-> IF node.ignorecase
                          THEN {LowerChar(node.w[1]), UpperChar(node.w[1])}
                          ELSE {node.w[1]}]
         ELSE IF node.k \in {"at", "look"} THEN First(re, k + 1)
         ELSE IF node.k = "grp" THEN First(node.body \o SubSeq(re, k + 1, Len(re)), 1)
         ELSE IF node.k = "alt"
         THEN LET each == [i \in 1..Len(node.alts) |->
                              First(node.alts[i] \o SubSeq(re, k + 1, Len(re)), 1)]
              IN [any |-> \E i \in 1..Len(each) : each[i].any,
                  s |-> UNION {each[i].s : i \in 1..Len(each)}]
         ELSE LET body == First(node.body, 1)
                  rest == IF node.min = 0 THEN First(re, k + 1) ELSE [any |-> FALSE, s |-> {}]
              IN [any |-> body.any \/ rest.any, s |-> body.s \cup rest.s]

\* the matches re.finditer finds in t: <<start, end, groups>>, from left to
\* right, none overlapping another.  found[i] are the ways re matches at
\* position i; Pick gives the matches that start at from..to and not before
\* free, the position up to which the matches before have taken the text
RECURSIVE Pick(_, _, _, _)
RECURSIVE PickRight(_, _, _, _)
Pick(found, from, to, free) ==
    IF \A i \in from..to : i < free \/ Len(found[i]) = 0
    THEN [matches |-> << >>, free |-> free]
    ELSE IF from = to
    THEN [matches |-> <<[start |-> from, end |-> found[from][1].pos,
                         groups |-> found[from][1].groups]>>,
          free |-> IF found[from][1].pos > from THEN found[from][1].pos ELSE from + 1]
    ELSE PickRight(Pick(found, from, (from + to) \div 2, free), found, (from + to) \div 2 + 1, to)

\* the matches of the right half after those of the left half
PickRight(left, found, from, to) ==
    [Pick(found, from, to, left.free) EXCEPT !.matches = left.matches \o @]

\* the ways re matches at each position of t a match can start at
MatchAt(first, re, t) ==
    [i \in 1..Len(t) |->
        IF first.any \/ t[i] \in first.s THEN MatchSeq(re, 1, t, i, NoGroups) ELSE << >>]

finditer(re, t) ==
    IF Len(t) = 0 THEN << >> ELSE Pick(MatchAt(First(re, 1), re, t), 1, Len(t), 1).matches

\* re.search: whether re matches somewhere in t
search(re, t) == Len(finditer(re, t)) > 0

\* a replacement: text and references to groups, in upper or lower case where
\* the program's lambda asks for it
Text(t) == [g |-> 0, s |-> t, f |-> ""]
T(s) == Text(Chars(s))
G(n) == [g |-> n, s |-> << >>, f |-> ""]
GUpper(n) == [g |-> n, s |-> << >>, f |-> "upper"]
GLower(n) == [g |-> n, s |-> << >>, f |-> "lower"]

RECURSIVE Expand(_, _, _, _)
Expand(tpl, i, t, m) ==
    IF i > Len(tpl) THEN << >>
    ELSE LET part == tpl[i]
             group == IF part.g = 0 THEN part.s
                      ELSE SubSeq(t, m.groups[part.g][1], m.groups[part.g][2] - 1)
             cased == IF part.f = "upper" THEN [j \in 1..Len(group) |-> UpperChar(group[j])]
                      ELSE IF part.f = "lower" THEN [j \in 1..Len(group) |-> LowerChar(group[j])]
                      ELSE group
         IN cased \o Expand(tpl, i + 1, t, m)

\* t with the matches from..to replaced, from position start of t up to the
\* end of the last of them
RECURSIVE Rebuild(_, _, _, _, _, _)
Rebuild(matches, from, to, start, t, tpl) ==
    IF from = to
    THEN SubSeq(t, start, matches[from].start - 1) \o Expand(tpl, 1, t, matches[from])
    ELSE LET mid == (from + to) \div 2
         IN Rebuild(matches, from, mid, start, t, tpl)
               \o Rebuild(matches, mid + 1, to, matches[mid].end, t, tpl)

\* t with the matches replaced
Replaced(matches, t, tpl) ==
    IF Len(matches) = 0 THEN t
    ELSE Rebuild(matches, 1, Len(matches), 1, t, tpl)
            \o SubSeq(t, matches[Len(matches)].end, Len(t))

\* re.sub(re, tpl, t)
sub(re, tpl, t) == Replaced(finditer(re, t), t, tpl)

\* re.sub for each <<re, tpl>> of a list, in its order: those from..to
RECURSIVE SubRange(_, _, _, _)
SubRange(fixes, from, to, t) ==
    IF from > to \/ Len(t) = 0 THEN t
    ELSE IF from = to THEN sub(fixes[from][1], fixes[from][2], t)
    ELSE LET half == SubRange(fixes, from, (from + to) \div 2, t)
         IN SubRange(fixes, (from + to) \div 2 + 1, to, half)

SubAll(fixes, i, t) == SubRange(fixes, i, Len(fixes), t)

(***************************************************************************)
(* Methods of str used by the response sanitization, on sequences of       *)
(* characters.  A position is counted from 1, and 0 says "not found".      *)
(***************************************************************************)
find(t, w, from) ==
    LET hits == {i \in from..(Len(t) - Len(w) + 1) :
                    t[i] = w[1] /\ SubSeq(t, i, i + Len(w) - 1) = w}
    IN IF hits = {} THEN 0 ELSE CHOOSE i \in hits : \A j \in hits : i <= j

\* w in t
contains(t, w) == find(t, Chars(w), 1) > 0

\* t[:n], where n may lie behind the end of t
prefix(t, n) == SubSeq(t, 1, IF n < Len(t) THEN n ELSE Len(t))

\* str.replace: the occurrences of old from left to right, none overlapping
\* another
replace(t, old, new) == sub(Literal(old, FALSE), <<Text(new)>>, t)

\* str.replace for each <<old, new>> of a list of strings, in its order
ReplaceAll(pairs, i, t) ==
    SubAll([k \in 1..Len(pairs) |-> <<Word(pairs[k][1], FALSE), <<T(pairs[k][2])>>>>], i, t)

\* str.replace for each <<old, new>> of a list of texts, in its order
ReplaceTexts(pairs, t) ==
    SubAll([k \in 1..Len(pairs) |-> <<Literal(pairs[k][1], FALSE), <<Text(pairs[k][2])>>>>], 1, t)

strip(t) ==
    LET inner == {i \in 1..Len(t) : t[i] \notin Whitespace} IN
    IF inner = {} THEN << >>
    ELSE SubSeq(t, CHOOSE i \in inner : \A j \in inner : i <= j,
                   CHOOSE i \in inner : \A j \in inner : i >= j)

\* str.split(sep): the texts between the occurrences of sep
split(t, sep) ==
    LET m == finditer(Literal(sep, FALSE), t) IN
    [k \in 1..(Len(m) + 1) |->
        SubSeq(t, IF k = 1 THEN 1 ELSE m[k - 1].end, IF k > Len(m) THEN Len(t) ELSE m[k].start - 1)]

\* sep.join(parts[from..to])
RECURSIVE JoinRange(_, _, _, _)
JoinRange(parts, from, to, sep) ==
    IF from > to THEN << >>
    ELSE IF from = to THEN parts[from]
    ELSE LET mid == (from + to) \div 2
         IN JoinRange(parts, from, mid, sep) \o sep \o JoinRange(parts, mid + 1, to, sep)

join(parts, sep) == JoinRange(parts, 1, Len(parts), sep)

to_lower(t) == [i \in 1..Len(t) |-> LowerChar(t[i])]
to_upper(t) == [i \in 1..Len(t) |-> UpperChar(t[i])]
capitalize(t) == [i \in 1..Len(t) |-> IF i = 1 THEN UpperChar(t[i]) ELSE LowerChar(t[i])]
startswith(t, w) == Len(t) >= Len(w) /\ SubSeq(t, 1, Len(w)) = Chars(w)

\* str(n) of a natural number
RECURSIVE Decimal(_)
Decimal(n) ==
    LET digit == <<"0", "1", "2", "3", "4", "5", "6", "7", "8", "9">>[(n % 10) + 1] IN
    IF n < 10 THEN <<digit>> ELSE Decimal(n \div 10) \o <<digit>>

(***************************************************************************)
(* Response sanitization: the rewriting get_ai_response applies to the     *)
(* text call_groq_api returned, pass by pass in the order of the code.     *)
(* user_input is the message of the turn.                                  *)
(***************************************************************************)
\* re.escape(t) under re.IGNORECASE
escape(t) == Literal(t, TRUE)

\* \s*, \s+ and \.
Spaces(min) == Rep(<<Ch(Whitespace)>>, min, Inf)
Dot == Ch({"."})

\* re.findall for an expression with one group
findall(re, t) ==
    LET m == finditer(re, t) IN
    [i \in 1..Len(m) |-> SubSeq(t, m[i].groups[1][1], m[i].groups[1][2] - 1)]

\* "ULTRA EARLY FIX" and "Fix capitalized extensions"
fix_domain_spacing(response_text) ==
    ReplaceAll(
        <<<<". Com", ".com">>, <<".Com", ".com">>, <<". NET", ".net">>, <<".NET", ".net">>,
          <<". ORG", ".org">>, <<".ORG", ".org">>,
          <<"example. Com", "example.com">>, <<"example. com", "example.com">>,
          <<"example .com", "example.com">>, <<"example . com", "example.com">>>>, 1,
        SubAll(
            <<<<<<Grp(1, <<Rep(<<Ch(Letters \cup Digits \cup {"-"})>>, 1, Inf)>>), Rep(<<Ch(Whitespace)>>, 0, Inf)>> \o Word(".", FALSE) \o <<Rep(<<Ch(Whitespace)>>, 1, Inf), Grp(2, <<Ch({"C", "c"}), Ch({"O", "o"}), Ch({"M", "m"})>>), At("b")>>,
                <<G(1), T(".com")>>>>,
              <<<<Grp(1, <<Rep(<<Ch(Letters \cup Digits \cup {"-"})>>, 1, Inf)>>), Rep(<<Ch(Whitespace)>>, 0, Inf)>> \o Word(".", FALSE) \o <<Rep(<<Ch(Whitespace)>>, 1, Inf), Grp(2, <<Ch({"N", "n"}), Ch({"E", "e"}), Ch({"T", "t"})>>), At("b")>>,
                <<G(1), T(".net")>>>>,
              <<<<Grp(1, <<Rep(<<Ch(Letters \cup Digits \cup {"-"})>>, 1, Inf)>>), Rep(<<Ch(Whitespace)>>, 0, Inf)>> \o Word(".", FALSE) \o <<Rep(<<Ch(Whitespace)>>, 1, Inf), Grp(2, <<Ch({"O", "o"}), Ch({"R", "r"}), Ch({"G", "g"})>>), At("b")>>,
                <<G(1), T(".org")>>>>,
              <<<<Grp(1, <<Rep(<<Ch(Letters \cup Digits \cup {"-"})>>, 1, Inf)>>), Rep(<<Ch(Whitespace)>>, 0, Inf)>> \o Word(".", FALSE) \o <<Rep(<<Ch(Whitespace)>>, 1, Inf), Grp(2, <<Ch({"C", "c"}), Ch({"O", "o"})>>), At("b")>>,
                <<G(1), T(".co")>>>>,
              <<<<Grp(1, <<Rep(<<Ch(Letters \cup Digits \cup {"-"})>>, 1, Inf)>>), Rep(<<Ch(Whitespace)>>, 0, Inf)>> \o Word(".", FALSE) \o <<Rep(<<Ch(Whitespace)>>, 1, Inf), Grp(2, <<Ch({"I", "i"}), Ch({"O", "o"})>>), At("b")>>,
                <<G(1), T(".io")>>>>,
              <<<<Grp(1, <<Rep(<<Ch(Letters \cup Digits \cup {"-"})>>, 1, Inf)>>), Rep(<<Ch(Whitespace)>>, 0, Inf)>> \o Word(".", FALSE) \o <<Rep(<<Ch(Whitespace)>>, 1, Inf), Grp(2, <<Ch({"I", "i"}), Ch({"N", "n"})>>), At("b")>>,
                <<G(1), T(".in")>>>>>>, 1, response_text))

\* the domains of user_input
user_domains(user_input) ==
    findall(<<Rep(Word("http", TRUE) \o <<Rep(Word("s", TRUE), 0, 1)>> \o Word("://", TRUE), 0, 1), Rep(Word("www.", TRUE), 0, 1), Grp(1, <<Rep(<<Ch(Letters \cup Digits \cup {"-"})>>, 1, Inf), Rep(Word(".", TRUE) \o <<Rep(<<Ch(Letters \cup Digits \cup {"-"})>>, 1, Inf)>>, 0, Inf)>> \o Word(".", TRUE) \o <<Rep(<<Ch(Letters)>>, 2, Inf)>>)>>, user_input)
    \o findall(<<At("b"), Grp(1, <<Rep(<<Ch(Letters \cup Digits \cup {"-"})>>, 1, Inf)>> \o Word(".", TRUE) \o <<Rep(<<Ch(Letters)>>, 2, Inf)>>), At("b")>>, user_input)

corrupted_domain_patterns(domain_name, tld) ==
    <<escape(domain_name) \o <<Spaces(1), Dot, Spaces(0)>> \o escape(tld),
      escape(domain_name) \o <<Spaces(0), Dot, Spaces(1)>> \o escape(tld),
      escape(domain_name) \o <<Dot>> \o escape(capitalize(tld)),
      escape(domain_name) \o <<Spaces(0), Dot, Spaces(0)>> \o escape(capitalize(tld)),
      escape(domain_name) \o <<Spaces(0), Dot, Spaces(0)>> \o escape(to_upper(tld)),
      escape(capitalize(domain_name)) \o <<Spaces(0), Dot, Spaces(0)>> \o escape(tld),
      escape(capitalize(domain_name)) \o <<Spaces(0), Dot, Spaces(0)>> \o escape(capitalize(tld))>>

\* one domain of user_input in response_text
fix_user_domain(clean_domain, domain_parts, response_text) ==
    IF Len(domain_parts) >= 2
    THEN SubAll([k \in 1..7 |->
                    <<corrupted_domain_patterns(
                          join(SubSeq(domain_parts, 1, Len(domain_parts) - 1), <<".">>),
                          domain_parts[Len(domain_parts)])[k],
                      <<Text(clean_domain)>>>>],
                1, response_text)
    ELSE response_text

\* "Fix each found domain in the response", for the domains from the i-th on
RECURSIVE fix_user_domains(_, _, _)
RECURSIVE fix_more_domains(_, _, _)
fix_user_domains(url_matches, i, response_text) ==
    IF i > Len(url_matches) THEN response_text
    ELSE fix_more_domains(url_matches, i + 1,
                          fix_user_domain(strip(to_lower(url_matches[i])),
                                          split(strip(to_lower(url_matches[i])), <<".">>),
                                          response_text))

fix_more_domains(url_matches, i, fixed) ==
    IF Len(fixed) = 0 THEN fixed ELSE fix_user_domains(url_matches, i, fixed)

\* "Fix common domain extensions with spaces/capitals for ANY domain"
fix_any_domain(response_text) ==
    SubAll(
            <<<<<<Grp(1, <<Rep(<<Ch(Letters \cup Digits \cup {"-"})>>, 1, Inf), Rep(Word(".", FALSE) \o <<Rep(<<Ch(Letters \cup Digits \cup {"-"})>>, 1, Inf)>>, 0, Inf)>>), Rep(<<Ch(Whitespace)>>, 1, Inf)>> \o Word(".", FALSE) \o <<Rep(<<Ch(Whitespace)>>, 0, Inf), Grp(2, <<Rep(<<Ch(Letters)>>, 2, Inf)>>), At("b")>>,
                <<G(1), T("."), G(2)>>>>,
              <<Word(".", FALSE) \o <<Grp(1, <<Rep(<<Ch(Uppercase)>>, 2, Inf)>>), At("b")>>,
                <<T("."), GLower(1)>>>>,
              <<<<Grp(1, <<Rep(<<Ch(Letters \cup Digits \cup {"-"})>>, 1, Inf)>>)>> \o Word(".", FALSE) \o <<Rep(<<Ch(Whitespace)>>, 1, Inf), Grp(2, <<Rep(<<Ch(Letters)>>, 2, Inf)>>), At("b")>>,
                <<G(1), T("."), G(2)>>>>>>, 1,
        SubAll(
            <<<<<<Grp(1, <<Rep(<<Ch(Letters \cup Digits \cup {"-"})>>, 1, Inf)>>), Rep(<<Ch(Whitespace)>>, 1, Inf)>> \o Word(".", FALSE) \o <<Rep(<<Ch(Whitespace)>>, 0, Inf), Grp(2, <<Ch({"C", "c"}), Ch({"O", "o"}), Ch({"M", "m"})>>), At("b")>>,
                <<G(1), T(".com")>>>>,
              <<<<Grp(1, <<Rep(<<Ch(Letters \cup Digits \cup {"-"})>>, 1, Inf)>>), Rep(<<Ch(Whitespace)>>, 1, Inf)>> \o Word(".", FALSE) \o <<Rep(<<Ch(Whitespace)>>, 0, Inf), Grp(2, <<Ch({"N", "n"}), Ch({"E", "e"}), Ch({"T", "t"})>>), At("b")>>,
                <<G(1), T(".net")>>>>,
              <<<<Grp(1, <<Rep(<<Ch(Letters \cup Digits \cup {"-"})>>, 1, Inf)>>), Rep(<<Ch(Whitespace)>>, 1, Inf)>> \o Word(".", FALSE) \o <<Rep(<<Ch(Whitespace)>>, 0, Inf), Grp(2, <<Ch({"O", "o"}), Ch({"R", "r"}), Ch({"G", "g"})>>), At("b")>>,
                <<G(1), T(".org")>>>>,
              <<<<Grp(1, <<Rep(<<Ch(Letters \cup Digits \cup {"-"})>>, 1, Inf)>>), Rep(<<Ch(Whitespace)>>, 1, Inf)>> \o Word(".", FALSE) \o <<Rep(<<Ch(Whitespace)>>, 0, Inf), Grp(2, <<Ch({"I", "i"}), Ch({"O", "o"})>>), At("b")>>,
                <<G(1), T(".io")>>>>,
              <<<<Grp(1, <<Rep(<<Ch(Letters \cup Digits \cup {"-"})>>, 1, Inf)>>), Rep(<<Ch(Whitespace)>>, 1, Inf)>> \o Word(".", FALSE) \o <<Rep(<<Ch(Whitespace)>>, 0, Inf), Grp(2, <<Ch({"C", "c"}), Ch({"O", "o"})>>), At("b")>>,
                <<G(1), T(".co")>>>>,
              <<<<Grp(1, <<Rep(<<Ch(Letters \cup Digits \cup {"-"})>>, 1, Inf)>>), Rep(<<Ch(Whitespace)>>, 0, Inf)>> \o Word(".", FALSE) \o <<Rep(<<Ch(Whitespace)>>, 0, Inf)>> \o Word("Com", FALSE) \o <<At("b")>>,
                <<G(1), T(".com")>>>>,
              <<<<Grp(1, <<Rep(<<Ch(Letters \cup Digits \cup {"-"})>>, 1, Inf)>>)>> \o Word(".Com", FALSE) \o <<At("b")>>,
                <<G(1), T(".com")>>>>>>, 1, response_text))

\* the email address of user_input, the empty text when it has none
user_email_of(user_input) ==
    LET m == finditer(<<Rep(<<Ch(Letters \cup Digits \cup {"%", "+", "-", ".", "_"})>>, 1, Inf)>> \o Word("@", FALSE) \o <<Rep(<<Ch(Letters \cup Digits \cup {"-", "."})>>, 1, Inf)>> \o Word(".", FALSE) \o <<Rep(<<Ch(Letters)>>, 2, Inf)>>, user_input) IN
    IF Len(m) = 0 THEN << >> ELSE SubSeq(user_input, m[1].start, m[1].end - 1)

\* re.compile under re.IGNORECASE of a piece of the user's address put into an
\* expression as it is: "." is any character but a line break, "+" repeats
\* what stands before it and is an error (re.error) where nothing stands
\* before it or a repetition does
RECURSIVE compile(_, _)
compile(s, i) ==
    IF i > Len(s) THEN [ok |-> TRUE, re |-> << >>]
    ELSE IF s[i] = "+" THEN [ok |-> FALSE, re |-> << >>]
    ELSE LET atom == IF s[i] = "." THEN NotCh({"\n"})
                     ELSE Ch({LowerChar(s[i]), UpperChar(s[i])})
             repeated == i < Len(s) /\ s[i + 1] = "+"
             rest == compile(s, IF repeated THEN i + 2 ELSE i + 1)
         IN [ok |-> rest.ok,
             re |-> <<IF repeated THEN Rep(<<atom>>, 1, Inf) ELSE atom>> \o rest.re]

\* an expression put together from pieces: it is compiled when every piece is
RECURSIVE Concat(_, _)
Concat(pieces, i) == IF i > Len(pieces) THEN << >> ELSE pieces[i].re \o Concat(pieces, i + 1)
Pattern(pieces) == [ok |-> \A i \in 1..Len(pieces) : pieces[i].ok, re |-> Concat(pieces, 1)]
Nodes(re) == [ok |-> TRUE, re |-> re]

corruption_patterns(username, domain) ==
    LET parts == split(domain, <<".">>)
        last(n) == SubSeq(username, Len(username) - n + 1, Len(username))
    IN <<Pattern(<<Nodes(<<At("b"), Rep(<<Ch(Letters)>>, 1, 3), Ch({"@"})>> \o escape(domain))>>),
         Pattern(<<Nodes(<<Rep(<<Ch(Letters \cup Digits \cup {".", "_", "%", "+", "-"})>>, 0, Inf),
                           Ch({"@"})>>),
                   compile(parts[1], 1), Nodes(<<Spaces(0), Dot, Spaces(0)>>),
                   compile(parts[2], 1)>>),
         Pattern(<<compile(IF Len(username) > 3 THEN last(3) ELSE username, 1),
                   Nodes(<<Ch({"@"})>>), compile(parts[1], 1),
                   Nodes(<<Spaces(0), Dot, Spaces(0)>> \o Word("com", TRUE))>>),
         Pattern(<<compile(last(1), 1), Nodes(<<Ch({"@"})>> \o escape(domain))>>),
         Pattern(<<compile(IF Len(username) > 2 THEN last(2) ELSE username, 1),
                   Nodes(<<Ch({"@"})>> \o escape(domain))>>),
         Pattern(<<Nodes(<<At("b"), Rep(<<Ch(WordChars)>>, 1, 5), Ch({"@"})>> \o escape(domain))>>),
         Pattern(<<Nodes(Word("email", TRUE)
                           \o <<Spaces(1), Rep(<<Ch(WordChars)>>, 1, 5), Ch({"@"})>>
                           \o escape(domain))>>),
         Pattern(<<Nodes(<<At("b"), Rep(<<Ch(WordChars)>>, 0, Inf)>>), compile(last(1), 1),
                   Nodes(<<Ch({"@"})>> \o escape(domain))>>)>>

corrupted_exact_patterns(username, domain) ==
    LET parts == split(domain, <<".">>)
        head == <<Nodes(escape(username) \o <<Ch({"@"})>>), compile(parts[1], 1)>>
    IN <<Pattern(head \o <<Nodes(<<Spaces(0), Dot, Spaces(0)>>), compile(parts[2], 1)>>),
         Pattern(head \o <<Nodes(<<Dot>>), compile(capitalize(parts[2]), 1)>>),
         Pattern(head \o <<Nodes(<<Spaces(0), Dot, Spaces(0)>>), compile(capitalize(parts[2]), 1)>>),
         Pattern(head \o <<Nodes(<<Spaces(0), Dot, Spaces(0)>> \o Word("com", TRUE))>>)>>

\* "for match in matches": the matches from the i-th on.  start and end are
\* positions in original, the text the matches were found in
RECURSIVE replace_matches(_, _, _, _, _)
replace_matches(matches, i, original, response_text, user_email) ==
    IF i > Len(matches) THEN response_text
    ELSE LET group == to_lower(SubSeq(original, matches[i].start, matches[i].end - 1))
             replaced == prefix(response_text, matches[i].start - 1) \o user_email
                            \o SubSeq(response_text, matches[i].end, Len(response_text))
         IN replace_matches(matches, i + 1, original,
                            IF ~contains(group, "support") /\ ~contains(group, "novarsis")
                            THEN replaced ELSE response_text,
                            user_email)

\* "Replace ALL corrupted versions with the correct email", from the i-th
\* pattern on; raised says that a pattern is no expression
RECURSIVE fix_corrupted(_, _, _, _)
fix_corrupted(patterns, i, response_text, user_email) ==
    IF i > Len(patterns) THEN [raised |-> FALSE, text |-> response_text]
    ELSE IF ~patterns[i].ok THEN [raised |-> TRUE, text |-> response_text]
    ELSE fix_corrupted(patterns, i + 1,
                       replace_matches(finditer(patterns[i].re, response_text), 1,
                                       response_text, response_text, user_email),
                       user_email)

\* "ADDITIONAL FIX", from the i-th pattern on
RECURSIVE fix_exact(_, _, _, _)
fix_exact(patterns, i, response_text, user_email) ==
    IF i > Len(patterns) THEN [raised |-> FALSE, text |-> response_text]
    ELSE IF ~patterns[i].ok THEN [raised |-> TRUE, text |-> response_text]
    ELSE fix_exact(patterns, i + 1,
                   IF search(patterns[i].re, response_text)
                   THEN sub(patterns[i].re, <<Text(user_email)>>, response_text)
                   ELSE response_text,
                   user_email)

\* "CRITICAL EMAIL FIX"
fix_user_email(response_text, user_email) ==
    LET domain == split(user_email, <<"@">>)[2]
        username == split(user_email, <<"@">>)[1]
        fixed == fix_corrupted(corruption_patterns(username, domain), 1, response_text, user_email)
    IN IF Len(user_email) = 0 THEN [raised |-> FALSE, text |-> response_text]
       ELSE IF fixed.raised THEN fixed
       ELSE fix_exact(corrupted_exact_patterns(username, domain), 1, fixed.text, user_email)

\* "COMPREHENSIVE EMAIL FIXES for ALL emails" and the final pass for user_email
fix_all_emails(response_text, user_email) ==
    LET fixed == SubAll(
            <<<<<<Grp(1, <<Rep(<<Ch(Letters \cup Digits \cup {"%", "+", "-", ".", "_"})>>, 1, Inf)>> \o Word("@", FALSE) \o <<Rep(<<Ch(Letters \cup Digits \cup {"-", "."})>>, 1, Inf)>>), Rep(<<Ch(Whitespace)>>, 1, Inf)>> \o Word(".", FALSE) \o <<Rep(<<Ch(Whitespace)>>, 0, Inf), Grp(2, <<Alt(<<<<Ch({"C", "c"}), Ch({"O", "o"}), Ch({"M", "m"})>>, <<Ch({"C", "c"})>> \o Word("om", FALSE), <<Ch({"C", "c"})>> \o Word("o.in", FALSE), <<Ch({"N", "n"})>> \o Word("et", FALSE), <<Ch({"O", "o"})>> \o Word("rg", FALSE), <<Ch({"I", "i"})>> \o Word("n", FALSE), <<Ch({"I", "i"})>> \o Word("o", FALSE)>>)>>)>>,
                <<G(1), T(".com")>>>>,
              <<<<Grp(1, <<Rep(<<Ch(Letters \cup Digits \cup {"%", "+", "-", ".", "_"})>>, 1, Inf)>> \o Word("@", FALSE) \o <<Rep(<<Ch(Letters \cup Digits \cup {"-", "."})>>, 1, Inf)>>), Rep(<<Ch(Whitespace)>>, 0, Inf)>> \o Word(".", FALSE) \o <<Rep(<<Ch(Whitespace)>>, 0, Inf)>> \o Word("Com", FALSE) \o <<At("b")>>,
                <<G(1), T(".com")>>>>,
              <<<<Grp(1, <<Rep(<<Ch(Letters \cup Digits \cup {"%", "+", "-", ".", "_"})>>, 1, Inf)>> \o Word("@", FALSE) \o <<Rep(<<Ch(Letters \cup Digits \cup {"-", "."})>>, 1, Inf)>>)>> \o Word(".Com", FALSE) \o <<At("b")>>,
                <<G(1), T(".com")>>>>,
              <<Word("@", FALSE) \o <<Grp(1, <<Rep(<<Ch(Letters \cup Digits \cup {"-", "."})>>, 1, Inf)>>), Rep(<<Ch(Whitespace)>>, 1, Inf)>> \o Word(".", FALSE) \o <<Rep(<<Ch(Whitespace)>>, 0, Inf), Grp(2, <<Alt(<<<<Ch({"C", "c"}), Ch({"O", "o"}), Ch({"M", "m"})>>, <<Ch({"C", "c"})>> \o Word("om", FALSE), <<Ch({"N", "n"})>> \o Word("et", FALSE), <<Ch({"O", "o"})>> \o Word("rg", FALSE), <<Ch({"I", "i"})>> \o Word("n", FALSE), <<Ch({"I", "i"})>> \o Word("o", FALSE)>>)>>)>>,
                <<T("@"), G(1), T("."), G(2)>>>>>>, 1, response_text)
        com(s) == replace(user_email, Chars(".com"), Chars(s))
    IN IF Len(user_email) = 0 THEN fixed
       ELSE replace(replace(replace(fixed, com(".Com"), user_email), com(". com"), user_email),
                    com(". Com"), user_email)


\* f'__EMAIL_{n}__' and f'__TICKET_{n}__'
placeholder(kind, n) == Chars("__") \o Chars(kind) \o <<"_">> \o Decimal(n) \o Chars("__")

\* "for match in re.finditer(email_pattern, response_text)", the matches from
\* the i-th on; original is the text the matches are found in, extended says
\* that the loop is the one of extended_email_pattern
RECURSIVE protect(_, _, _, _, _, _, _)
protect(kind, matches, i, original, response_text, protected, extended) ==
    IF i > Len(matches) THEN [text |-> response_text, protected |-> protected]
    ELSE LET group == SubSeq(original, matches[i].start, matches[i].end - 1)
         IN IF extended /\ find(response_text, placeholder(kind, Len(protected)), 1) > 0
            THEN protect(kind, matches, i + 1, original, response_text, protected, extended)
            ELSE protect(kind, matches, i + 1, original,
                         replace(response_text, group, placeholder(kind, Len(protected))),
                         Append(protected,
                                IF extended THEN replace(group, <<" ">>, << >>) ELSE group),
                         extended)

\* "Restore protected emails", from the i-th on
RECURSIVE restore(_, _, _, _)
restore(kind, protected, i, response_text) ==
    IF i > Len(protected) THEN response_text
    ELSE restore(kind, protected, i + 1,
                 replace(response_text, placeholder(kind, i - 1), protected[i]))

\* "Fix alphanumeric spacing (but protect emails)"
space_alphanumerics(response_text) ==
    LET first == protect("EMAIL",
                     finditer(<<Rep(<<Ch(Letters \cup Digits \cup {"%", "+", "-", ".", "_"})>>, 1, Inf)>> \o Word("@", FALSE) \o <<Rep(<<Ch(Letters \cup Digits \cup {"-", "."})>>, 1, Inf)>> \o Word(".", FALSE) \o <<Rep(<<Ch(Letters)>>, 2, Inf)>>, response_text),
                     1, response_text, response_text, << >>, FALSE)
        second == protect("EMAIL",
                     finditer(<<Rep(<<Ch(Letters \cup Digits \cup {"%", "+", "-", ".", "_"})>>, 1, Inf)>> \o Word("@", FALSE) \o <<Rep(<<Ch(Letters \cup Digits \cup {"-", "."})>>, 1, Inf), Rep(<<Ch(Whitespace)>>, 0, Inf)>> \o Word(".", FALSE) \o <<Rep(<<Ch(Whitespace)>>, 0, Inf), Rep(<<Ch(Letters)>>, 2, Inf)>>, first.text),
                     1, first.text, first.text, first.protected, TRUE)
    IN restore("EMAIL", second.protected, 1, SubAll(
            <<<<<<Grp(1, <<Rep(<<Ch(Digits)>>, 1, Inf)>>), Grp(2, <<Ch(Letters)>>)>>,
                <<G(1), T(" "), G(2)>>>>,
              <<<<Grp(1, <<Ch(Letters)>>), Grp(2, <<Rep(<<Ch(Digits)>>, 1, Inf)>>)>>,
                <<G(1), T(" "), G(2)>>>>>>, 1, second.text))

\* "Final cleanup" of fix_email_format, the matches from the i-th down
RECURSIVE fix_malformed(_, _, _)
fix_malformed(matches, i, text) ==
    IF i = 0 THEN text
    ELSE LET start == matches[i].start
             before_text == to_lower(SubSeq(text, IF start > 20 THEN start - 20 ELSE 1, start - 1))
             email_like == \E word \in {"contact", "email", "at", "on", "us", "support"} :
                               contains(before_text, word)
         IN fix_malformed(matches, i - 1,
                          IF email_like
                          THEN prefix(text, start - 1) \o Chars("support@novarsistech.com")
                                  \o SubSeq(text, matches[i].end, Len(text))
                          ELSE text)

fix_email_format(text0) ==
    LET text == SubAll(
            <<<<Word("support@support@novarsistech.com", TRUE),
                <<T("support@novarsistech.com")>>>>,
              <<Word("support@support@", TRUE),
                <<T("support@")>>>>>>
            \o
            <<<<Word("support", TRUE) \o <<Rep(Word("@", TRUE), 0, 1), Rep(<<Ch(Whitespace)>>, 0, Inf)>> \o Word("novarsistech", TRUE) \o <<Rep(<<Ch(Whitespace)>>, 0, Inf)>> \o Word(".", TRUE) \o <<Rep(<<Ch(Whitespace)>>, 0, Inf), Ch({"C", "c"})>> \o Word("om", TRUE),
                <<T("support@novarsistech.com")>>>>,
              <<Word("support", TRUE) \o <<Rep(Word("@", TRUE), 0, 1), Rep(<<Ch(Whitespace)>>, 0, Inf)>> \o Word("novarsistech", TRUE) \o <<Rep(<<Ch(Whitespace)>>, 1, Inf), Ch({"C", "c"})>> \o Word("om", TRUE),
                <<T("support@novarsistech.com")>>>>,
              <<Word("support", TRUE) \o <<Rep(<<Ch(Whitespace)>>, 1, Inf)>> \o Word("novarsistech", TRUE) \o <<Rep(<<Ch(Whitespace)>>, 0, Inf), Rep(Word(".", TRUE), 0, 1), Rep(<<Ch(Whitespace)>>, 0, Inf), Ch({"C", "c"})>> \o Word("om", TRUE),
                <<T("support@novarsistech.com")>>>>,
              <<Word("novarsistech", TRUE) \o <<Rep(<<Ch(Whitespace)>>, 0, Inf)>> \o Word(".", TRUE) \o <<Rep(<<Ch(Whitespace)>>, 0, Inf), Ch({"C", "c"})>> \o Word("om", TRUE),
                <<T("support@novarsistech.com")>>>>,
              <<Word("support", TRUE) \o <<Rep(Word("@", TRUE), 0, 1), Rep(<<Ch(Whitespace)>>, 0, Inf)>> \o Word("novarsis", TRUE) \o <<Rep(<<Ch(Whitespace)>>, 0, Inf)>> \o Word("tech", TRUE) \o <<Rep(<<Ch(Whitespace)>>, 0, Inf), Rep(Word(".", TRUE), 0, 1), Rep(<<Ch(Whitespace)>>, 0, Inf), Ch({"C", "c"})>> \o Word("om", TRUE),
                <<T("support@novarsistech.com")>>>>>>
            \o
            <<<<<<Grp(1, Word("contact", TRUE) \o <<Rep(<<Ch(Whitespace)>>, 1, Inf)>> \o Word("us", TRUE) \o <<Rep(<<Ch(Whitespace)>>, 1, Inf), Alt(<<Word("on", TRUE), Word("at", TRUE)>>), Rep(<<Ch(Whitespace)>>, 1, Inf)>>), Rep(<<Ch(Letters)>>, 0, Inf)>> \o Word("novarsis", TRUE) \o <<Rep(<<Ch(Letters)>>, 0, Inf), Rep(<<Ch(Whitespace)>>, 0, Inf), Rep(Word(".", TRUE), 0, 1), Rep(<<Ch(Whitespace)>>, 0, Inf), Ch({"C", "c"})>> \o Word("om", TRUE) \o <<Rep(Word(".", TRUE), 0, 1)>>,
                <<G(1), T("support@novarsistech.com")>>>>,
              <<<<Grp(1, Word("email", TRUE) \o <<Rep(<<Ch(Whitespace)>>, 1, Inf)>> \o Word("us", TRUE) \o <<Rep(<<Ch(Whitespace)>>, 1, Inf)>> \o Word("at", TRUE) \o <<Rep(<<Ch(Whitespace)>>, 1, Inf)>>), Rep(<<Ch(Letters)>>, 0, Inf)>> \o Word("novarsis", TRUE) \o <<Rep(<<Ch(Letters)>>, 0, Inf), Rep(<<Ch(Whitespace)>>, 0, Inf), Rep(Word(".", TRUE), 0, 1), Rep(<<Ch(Whitespace)>>, 0, Inf), Ch({"C", "c"})>> \o Word("om", TRUE) \o <<Rep(Word(".", TRUE), 0, 1)>>,
                <<G(1), T("support@novarsistech.com")>>>>>>, 1, text0)
        at == find(to_lower(text), Chars("novarsistech"), 1)
        near == SubSeq(text, IF at > 10 THEN at - 10 ELSE 1,
                       IF at + 29 < Len(text) THEN at + 29 ELSE Len(text))
        matches == finditer(<<At("b"), Rep(<<Ch(Letters)>>, 0, Inf)>> \o Word("novarsis", TRUE) \o <<Rep(<<Ch(Letters)>>, 0, Inf), Rep(<<Ch(Whitespace)>>, 0, Inf), Rep(Word(".", TRUE), 0, 1), Rep(<<Ch(Whitespace)>>, 0, Inf), Ch({"C", "c"})>> \o Word("om", TRUE) \o <<At("b")>>, text)
    IN IF at > 0 /\ ~contains(near, "@") THEN fix_malformed(matches, Len(matches), text) ELSE text

\* "Enhanced cleaning for grammar and formatting" and "Formatting
\* improvements for presentability"
clean_grammar(response_text) ==
    SubAll(
            <<<<<<NotCh(Letters \cup Digits \cup {"\n", " ", "!", "(", ")", ",", "-", ".", ":", ";", "?", "@", Bullet})>>,
                << >>>>,
              <<Word(".", FALSE) \o <<Grp(1, <<Ch(Letters)>>)>>,
                <<T(". "), G(1)>>>>,
              <<<<Rep(<<Ch(Whitespace)>>, 1, Inf)>>,
                <<T(" ")>>>>,
              <<Word(",", FALSE) \o <<Grp(1, <<Ch(Letters)>>)>>,
                <<T(", "), G(1)>>>>,
              <<<<Grp(1, <<Ch({"!", "?"})>>), Grp(2, <<Ch(Letters)>>)>>,
                <<G(1), T(" "), G(2)>>>>,
              <<<<Grp(1, <<Ch(Lowercase)>>), Grp(2, <<Ch(Uppercase)>>)>>,
                <<G(1), T(" "), G(2)>>>>,
              <<<<Rep(<<Ch(Whitespace)>>, 1, Inf)>>,
                <<T(" ")>>>>,
              <<<<Grp(1, <<Ch({"!", ".", "?"})>>), Ch(Whitespace)>>,
                <<G(1), T("\n\n")>>>>>>, 1,
        strip(SubAll(
            <<<<<<At("start"), Grp(1, Word("Hey there", TRUE) \o <<Rep(<<Ch({" ", "!", ",", "."})>>, 0, Inf)>> \o Word("I", TRUE) \o <<Rep(Word("'", TRUE), 0, 1)>> \o Word("m Nova", TRUE) \o <<Lazy(<<NotCh({"\n"})>>, 0, Inf)>> \o Word("guide", TRUE) \o <<Rep(<<Ch({"!", "."})>>, 0, 1), Rep(<<Ch(Whitespace)>>, 0, Inf)>>)>>,
                << >>>>>>, 1,
            replace(SubAll(
            <<<<<<Rep(Word("*", FALSE), 1, Inf)>>,
                << >>>>>>, 1, response_text), Chars("**"), << >>))))

\* "CRITICAL PRICING FIX"
pricing_fix(response_text) ==
    LET low == to_lower(response_text) IN
    IF /\ \/ contains(low, "pricing") \/ contains(low, "plans")
          \/ contains(low, "free plan") \/ contains(low, "pro plan")
       /\ contains(low, "enterprise")
       /\ contains(response_text, "Have I resolved your query?")
    THEN response_text \o Chars("\n\nHave I resolved your query?")
    ELSE response_text


\* one line of format_response_text.  re.split with a group gives the text
\* before a match, the match, the text behind it, and so on; the loop puts
\* them together again with a line break before every match
format_line(line) ==
    IF Len(strip(line)) = 0 THEN << >>
    ELSE IF search(<<At("start"), Rep(<<Ch(Whitespace)>>, 0, Inf), Rep(<<Ch(Digits)>>, 1, Inf)>> \o Word(".", FALSE) \o <<Rep(<<Ch(Whitespace)>>, 1, Inf)>>, line) THEN line
    ELSE IF search(<<At("start"), Rep(<<Ch(Whitespace)>>, 0, Inf), Ch({"-", Bullet}), Rep(<<Ch(Whitespace)>>, 1, Inf)>>, line) THEN line
    ELSE IF search(<<Ch(Whitespace), Rep(<<Ch(Digits)>>, 1, Inf)>> \o Word(".", FALSE) \o <<Rep(<<Ch(Whitespace)>>, 1, Inf)>>, line)
    THEN sub(<<Grp(1, <<Ch(Whitespace), Rep(<<Ch(Digits)>>, 1, Inf)>> \o Word(".", FALSE) \o <<Rep(<<Ch(Whitespace)>>, 1, Inf)>>)>>, <<T("\n"), G(1)>>, line)
    ELSE IF search(<<Ch(Whitespace), Ch({"-", Bullet}), Rep(<<Ch(Whitespace)>>, 1, Inf)>>, line)
    THEN sub(<<Grp(1, <<Ch(Whitespace), Ch({"-", Bullet}), Rep(<<Ch(Whitespace)>>, 1, Inf)>>)>>, <<T("\n"), G(1)>>, line)
    ELSE line

\* "Format the plan details with bullet points": the details from the i-th on
RECURSIVE format_details(_, _)
format_details(details, i) ==
    IF i > Len(details) THEN << >>
    ELSE (IF i = 1 THEN <<strip(details[i])>>
          ELSE IF Len(strip(details[i])) > 0 THEN <<Chars("- ") \o strip(details[i])>>
          ELSE << >>) \o format_details(details, i + 1)

\* "Additional formatting for pricing plans": the plans of pricing_section,
\* which the matches of the plan names divide
format_plans(matches, pricing_section) ==
    [i \in 1..Len(matches) |->
        LET plan_name == SubSeq(pricing_section, matches[i].start, matches[i].end - 1)
            plan_details == SubSeq(pricing_section, matches[i].end,
                                   IF i < Len(matches) THEN matches[i + 1].start - 1
                                   ELSE Len(pricing_section))
        IN plan_name \o <<"\n">> \o join(format_details(split(plan_details, <<"-">>), 1), <<"\n">>)]

\* the loop over the lines of format_response_text
format_lines(text, lines) == join([i \in 1..Len(lines) |-> format_line(lines[i])], <<"\n">>)

\* the part of format_response_text behind the loop over the lines
format_pricing_section(formatted_text) ==
    LET pricing_start == find(formatted_text, Chars("Free Plan:"), 1)
        expert == find(formatted_text,
                       Chars("Would you like me to connect with an expert for the Enterprise model?"), 1)
        pricing_end == IF expert = 0 THEN Len(formatted_text) + 1 ELSE expert
        pricing_section == SubSeq(formatted_text, pricing_start, pricing_end - 1)
    IN IF /\ contains(formatted_text, "Free Plan:") /\ contains(formatted_text, "Pro Plan:")
          /\ contains(formatted_text, "Enterprise Plan:")
       THEN SubSeq(formatted_text, 1, pricing_start - 1)
               \o join(format_plans(finditer(<<Grp(1, <<Alt(<<Word("Free Plan:", FALSE), Word("Pro Plan:", FALSE), Word("Enterprise Plan:", FALSE)>>)>>)>>,
                                             pricing_section),
                                    pricing_section), Chars("\n\n"))
               \o SubSeq(formatted_text, pricing_end, Len(formatted_text))
       ELSE formatted_text

format_response_text(text) == format_pricing_section(format_lines(text, split(text, <<"\n">>)))

\* one line of format_pricing_plans: the line appended to formatted_lines and
\* in_pricing_section after it
pricing_line(line, in_pricing_section) ==
    LET line_lower == strip(to_lower(line))
        heading == \E keyword \in {"plan:", "pricing", "subscription"} :
                       contains(line_lower, keyword)
        feature == Len(line) > 0 /\ line[1] \in {"-", Bullet}
    IN IF heading THEN [lines |-> <<line>>, in_pricing_section |-> TRUE]
       ELSE IF in_pricing_section /\ feature
       THEN [lines |-> <<Chars("  ") \o line>>, in_pricing_section |-> TRUE]
       ELSE IF in_pricing_section /\ (heading \/ Len(strip(line)) = 0)
       THEN [lines |-> <<line>>, in_pricing_section |-> FALSE]
       ELSE IF in_pricing_section
       THEN [lines |-> <<Chars("  ") \o line>>, in_pricing_section |-> TRUE]
       ELSE [lines |-> <<line>>, in_pricing_section |-> FALSE]

\* the lines from..to of format_pricing_plans, one after the other
RECURSIVE pricing_lines(_, _, _, _)
pricing_lines(lines, from, to, in_pricing_section) ==
    IF from = to THEN pricing_line(lines[from], in_pricing_section)
    ELSE LET mid == (from + to) \div 2
             first == pricing_lines(lines, from, mid, in_pricing_section)
             second == pricing_lines(lines, mid + 1, to, first.in_pricing_section)
         IN [lines |-> first.lines \o second.lines,
             in_pricing_section |-> second.in_pricing_section]

format_pricing_plans(text) ==
    IF ~\E keyword \in {"plan", "pricing", "$", "free", "premium", "enterprise"} :
           contains(to_lower(text), keyword)
    THEN text
    ELSE LET lines == split(text, <<"\n">>)
         IN join(pricing_lines(lines, 1, Len(lines), FALSE).lines, <<"\n">>)

\* text[:query_solved_pos].strip() when text has the closing question
without_question(text) ==
    LET query_solved_pos == find(text, Chars("Have I resolved your query?"), 1) IN
    IF query_solved_pos > 0 THEN strip(SubSeq(text, 1, query_solved_pos - 1)) ELSE text

remove_duplicate_questions(text0) ==
    LET text == SubAll(
            <<<<Word("For more information", TRUE) \o <<Rep(<<Ch({",", "."})>>, 0, 1), Rep(<<Ch(Whitespace)>>, 0, Inf)>> \o Word("please contact us on", TRUE) \o <<Rep(<<Ch(Whitespace)>>, 0, Inf)>>,
                << >>>>,
              <<Word("For more information", TRUE) \o <<Rep(<<Ch({",", "."})>>, 0, 1), Rep(<<Ch(Whitespace)>>, 0, Inf)>> \o Word("contact us at", TRUE) \o <<Rep(<<Ch(Whitespace)>>, 0, Inf)>>,
                << >>>>>>, 1, text0)
        escalation_patterns ==
            <<Word("please contact us", TRUE),
              Word("contact us at", TRUE),
              Word("reach out to us", TRUE)>>
        team_handling_patterns ==
            <<Word("Our team will", TRUE),
              Word("get back to you", TRUE),
              Word("review your", TRUE),
              Word("working on your", TRUE),
              Word("expert will reach out", TRUE),
              Word("team has been notified", TRUE),
              Word("will contact you", TRUE)>>
        contact == IF \E i \in DOMAIN escalation_patterns : search(escalation_patterns[i], text)
                   THEN without_question(text) ELSE text
    IN IF \E i \in DOMAIN team_handling_patterns : search(team_handling_patterns[i], contact)
       THEN without_question(contact) ELSE contact

clean_response(text) == remove_duplicate_questions(format_pricing_plans(text))

\* "Ensure each bullet point is on new line": the parts of a line from the
\* i-th on
RECURSIVE bullet_parts(_, _)
bullet_parts(parts, i) ==
    IF i > Len(parts) THEN << >>
    ELSE (IF i = 1 THEN <<strip(parts[i])>>
          ELSE IF Len(strip(parts[i])) > 0 THEN <<<<Bullet, " ">> \o strip(parts[i])>>
          ELSE << >>) \o bullet_parts(parts, i + 1)

\* the lines a line gives are joined as all lines are
split_bullets(response_text) ==
    LET lines == split(response_text, <<"\n">>) IN
    join([i \in 1..Len(lines) |->
             IF find(lines[i], <<Bullet>>, 1) > 0
             THEN join(bullet_parts(split(lines[i], <<Bullet>>), 1), <<"\n">>)
             ELSE lines[i]],
         <<"\n">>)


fix_common_spacing_issues(text) ==
    LET tickets == protect("TICKET", finditer(<<Grp(1, Word("NVS", FALSE) \o <<Rep(<<Ch(Digits)>>, 1, Inf)>>)>>, text), 1, text, text, << >>, FALSE)
        spaced == restore("TICKET", tickets.protected, 1, SubAll(
            <<<<<<Grp(1, <<Rep(<<Ch(Digits)>>, 1, Inf)>>), Grp(2, <<Ch(Letters)>>)>>,
                <<G(1), T(" "), G(2)>>>>,
              <<<<Grp(1, <<Ch(Letters)>>), Grp(2, <<Rep(<<Ch(Digits)>>, 1, Inf)>>)>>,
                <<G(1), T(" "), G(2)>>>>>>, 1, tickets.text))
    IN SubAll(
            <<<<<<At("b"), Grp(1, Word("noone", TRUE)), At("b")>>,
                <<T("no one")>>>>,
              <<<<At("start"), Grp(1, <<Ch(Letters)>>)>>,
                <<GUpper(1)>>>>,
              <<<<Grp(1, <<Ch({"!", ".", "?"}), Rep(<<Ch(Whitespace)>>, 1, Inf)>>), Grp(2, <<Ch(Letters)>>)>>,
                <<G(1), GUpper(2)>>>>>>, 1,
        SubAll(
            <<<<<<At("b"), Grp(1, Word("next", TRUE)), Grp(2, <<Alt(<<Word("week", TRUE), Word("month", TRUE), Word("year", TRUE), Word("day", TRUE), Word("time", TRUE)>>)>>), At("b")>>,
                <<G(1), T(" "), G(2)>>>>,
              <<<<At("b"), Grp(1, Word("last", TRUE)), Grp(2, <<Alt(<<Word("week", TRUE), Word("month", TRUE), Word("year", TRUE), Word("day", TRUE), Word("time", TRUE), Word("night", TRUE)>>)>>), At("b")>>,
                <<G(1), T(" "), G(2)>>>>,
              <<<<At("b"), Grp(1, Word("this", TRUE)), Grp(2, <<Alt(<<Word("week", TRUE), Word("month", TRUE), Word("year", TRUE), Word("day", TRUE), Word("time", TRUE), Word("morning", TRUE), Word("afternoon", TRUE), Word("evening", TRUE)>>)>>), At("b")>>,
                <<G(1), T(" "), G(2)>>>>,
              <<<<At("b"), Grp(1, Word("can", TRUE)), Grp(2, Word("not", TRUE)), At("b")>>,
                <<G(1), T("not")>>>>,
              <<<<At("b"), Grp(1, Word("any", TRUE)), Grp(2, <<Alt(<<Word("one", TRUE), Word("body", TRUE), Word("thing", TRUE), Word("where", TRUE), Word("time", TRUE), Word("way", TRUE), Word("how", TRUE)>>)>>), At("b")>>,
                <<G(1), G(2)>>>>,
              <<<<At("b"), Grp(1, Word("some", TRUE)), Grp(2, <<Alt(<<Word("one", TRUE), Word("body", TRUE), Word("thing", TRUE), Word("where", TRUE), Word("time", TRUE), Word("times", TRUE), Word("what", TRUE), Word("how", TRUE)>>)>>), At("b")>>,
                <<G(1), G(2)>>>>,
              <<<<At("b"), Grp(1, Word("every", TRUE)), Grp(2, <<Alt(<<Word("one", TRUE), Word("body", TRUE), Word("thing", TRUE), Word("where", TRUE), Word("time", TRUE), Word("day", TRUE)>>)>>), At("b")>>,
                <<G(1), G(2)>>>>,
              <<<<At("b"), Grp(1, Word("no", TRUE)), Grp(2, <<Alt(<<Word("one", TRUE), Word("body", TRUE), Word("thing", TRUE), Word("where", TRUE)>>)>>), At("b")>>,
                <<G(1), T(" "), G(2)>>>>,
              <<<<At("b"), Grp(1, Word("web", TRUE)), Grp(2, <<Alt(<<Word("site", TRUE), Word("page", TRUE), Word("master", TRUE), Word("mail", TRUE)>>)>>), At("b")>>,
                <<G(1), G(2)>>>>,
              <<<<At("b"), Grp(1, Word("data", TRUE)), Grp(2, <<Alt(<<Word("base", TRUE), Word("set", TRUE)>>)>>), At("b")>>,
                <<G(1), G(2)>>>>,
              <<<<At("b"), Grp(1, Word("back", TRUE)), Grp(2, <<Alt(<<Word("up", TRUE), Word("end", TRUE), Word("link", TRUE), Word("links", TRUE), Word("ground", TRUE)>>)>>), At("b")>>,
                <<G(1), G(2)>>>>,
              <<<<At("b"), Grp(1, Word("key", TRUE)), Grp(2, <<Alt(<<Word("word", TRUE), Word("words", TRUE), Word("board", TRUE)>>)>>), At("b")>>,
                <<G(1), G(2)>>>>,
              <<<<At("b"), Grp(1, Word("user", TRUE)), Grp(2, Word("name", TRUE) \o <<Alt(<<<< >>, Word("s", TRUE)>>)>>), At("b")>>,
                <<G(1), G(2)>>>>,
              <<<<At("b"), Grp(1, Word("pass", TRUE)), Grp(2, Word("word", TRUE) \o <<Alt(<<<< >>, Word("s", TRUE)>>)>>), At("b")>>,
                <<G(1), G(2)>>>>,
              <<<<At("b"), Grp(1, Word("down", TRUE)), Grp(2, <<Alt(<<Word("load", TRUE), Word("loads", TRUE), Word("time", TRUE)>>)>>), At("b")>>,
                <<G(1), G(2)>>>>,
              <<<<At("b"), Grp(1, Word("up", TRUE)), Grp(2, <<Alt(<<Word("load", TRUE), Word("loads", TRUE), Word("date", TRUE), Word("dates", TRUE), Word("grade", TRUE), Word("time", TRUE)>>)>>), At("b")>>,
                <<G(1), G(2)>>>>,
              <<<<At("b"), Grp(1, Word("on", TRUE)), Grp(2, <<Alt(<<Word("line", TRUE), Word("board", TRUE), Word("going", TRUE)>>)>>), At("b")>>,
                <<G(1), G(2)>>>>,
              <<<<At("b"), Grp(1, Word("off", TRUE)), Grp(2, <<Alt(<<Word("line", TRUE), Word("board", TRUE), Word("set", TRUE)>>)>>), At("b")>>,
                <<G(1), G(2)>>>>,
              <<<<At("b"), Grp(1, Word("over", TRUE)), Grp(2, <<Alt(<<Word("view", TRUE), Word("all", TRUE), Word("load", TRUE), Word("time", TRUE)>>)>>), At("b")>>,
                <<G(1), G(2)>>>>,
              <<<<At("b"), Grp(1, Word("under", TRUE)), Grp(2, <<Alt(<<Word("stand", TRUE), Word("standing", TRUE), Word("stood", TRUE), Word("line", TRUE), Word("score", TRUE)>>)>>), At("b")>>,
                <<G(1), G(2)>>>>,
              <<<<At("b"), Grp(1, Word("out", TRUE)), Grp(2, <<Alt(<<Word("put", TRUE), Word("come", TRUE), Word("reach", TRUE), Word("line", TRUE), Word("look", TRUE)>>)>>), At("b")>>,
                <<G(1), G(2)>>>>,
              <<<<At("b"), Grp(1, Word("in", TRUE)), Grp(2, <<Alt(<<Word("put", TRUE), Word("come", TRUE), Word("sight", TRUE), Word("line", TRUE), Word("bound", TRUE)>>)>>), At("b")>>,
                <<G(1), G(2)>>>>,
              <<<<At("b"), Grp(1, Word("alot", TRUE)), At("b")>>,
                <<T("a lot")>>>>,
              <<<<At("b"), Grp(1, Word("atleast", TRUE)), At("b")>>,
                <<T("at least")>>>>,
              <<<<At("b"), Grp(1, Word("aswell", TRUE)), At("b")>>,
                <<T("as well")>>>>,
              <<<<At("b"), Grp(1, Word("inorder", TRUE)), At("b")>>,
                <<T("in order")>>>>,
              <<<<At("b"), Grp(1, Word("upto", TRUE)), At("b")>>,
                <<T("up to")>>>>,
              <<<<At("b"), Grp(1, Word("setup", TRUE)), At("b")>>,
                <<T("set up")>>>>,
              <<<<At("b"), Grp(1, Word("Im", TRUE)), At("b")>>,
                <<T("I'm")>>>>,
              <<<<At("b"), Grp(1, Word("Ive", TRUE)), At("b")>>,
                <<T("I've")>>>>,
              <<<<At("b"), Grp(1, Word("Ill", TRUE)), At("b")>>,
                <<T("I'll")>>>>,
              <<<<At("b"), Grp(1, Word("Id", TRUE)), At("b")>>,
                <<T("I'd")>>>>,
              <<<<At("b"), Grp(1, Word("wont", TRUE)), At("b")>>,
                <<T("won't")>>>>,
              <<<<At("b"), Grp(1, Word("cant", TRUE)), At("b")>>,
                <<T("can't")>>>>,
              <<<<At("b"), Grp(1, Word("dont", TRUE)), At("b")>>,
                <<T("don't")>>>>,
              <<<<At("b"), Grp(1, Word("doesnt", TRUE)), At("b")>>,
                <<T("doesn't")>>>>,
              <<<<At("b"), Grp(1, Word("didnt", TRUE)), At("b")>>,
                <<T("didn't")>>>>,
              <<<<At("b"), Grp(1, Word("isnt", TRUE)), At("b")>>,
                <<T("isn't")>>>>,
              <<<<At("b"), Grp(1, Word("arent", TRUE)), At("b")>>,
                <<T("aren't")>>>>,
              <<<<At("b"), Grp(1, Word("wasnt", TRUE)), At("b")>>,
                <<T("wasn't")>>>>,
              <<<<At("b"), Grp(1, Word("werent", TRUE)), At("b")>>,
                <<T("weren't")>>>>,
              <<<<At("b"), Grp(1, Word("hasnt", TRUE)), At("b")>>,
                <<T("hasn't")>>>>,
              <<<<At("b"), Grp(1, Word("havent", TRUE)), At("b")>>,
                <<T("haven't")>>>>,
              <<<<At("b"), Grp(1, Word("hadnt", TRUE)), At("b")>>,
                <<T("hadn't")>>>>,
              <<<<At("b"), Grp(1, Word("wouldnt", TRUE)), At("b")>>,
                <<T("wouldn't")>>>>,
              <<<<At("b"), Grp(1, Word("couldnt", TRUE)), At("b")>>,
                <<T("couldn't")>>>>,
              <<<<At("b"), Grp(1, Word("shouldnt", TRUE)), At("b")>>,
                <<T("shouldn't")>>>>,
              <<<<At("b"), Grp(1, Word("youre", TRUE)), At("b")>>,
                <<T("you're")>>>>,
              <<<<At("b"), Grp(1, Word("youve", TRUE)), At("b")>>,
                <<T("you've")>>>>,
              <<<<At("b"), Grp(1, Word("youll", TRUE)), At("b")>>,
                <<T("you'll")>>>>,
              <<<<At("b"), Grp(1, Word("youd", TRUE)), At("b")>>,
                <<T("you'd")>>>>,
              <<<<At("b"), Grp(1, Word("hes", TRUE)), At("b")>>,
                <<T("he's")>>>>,
              <<<<At("b"), Grp(1, Word("shes", TRUE)), At("b")>>,
                <<T("she's")>>>>,
              <<<<At("b"), Grp(1, Word("its", TRUE)), At("b"), NotAhead(Word(" ", TRUE) \o <<Rep(<<Ch(WordChars)>>, 1, Inf)>> \o Word("ing", TRUE))>>,
                <<T("it's")>>>>,
              <<<<At("b"), Grp(1, Word("were", TRUE)), At("b"), NotAhead(Word(" ", TRUE) \o <<Rep(<<Ch(WordChars)>>, 1, Inf)>> \o Word("ing", TRUE))>>,
                <<T("we're")>>>>,
              <<<<At("b"), Grp(1, Word("theyre", TRUE)), At("b")>>,
                <<T("they're")>>>>,
              <<<<At("b"), Grp(1, Word("theyve", TRUE)), At("b")>>,
                <<T("they've")>>>>,
              <<<<At("b"), Grp(1, Word("theyll", TRUE)), At("b")>>,
                <<T("they'll")>>>>,
              <<<<At("b"), Grp(1, Word("theyd", TRUE)), At("b")>>,
                <<T("they'd")>>>>,
              <<<<At("b"), Grp(1, Word("whats", TRUE)), At("b")>>,
                <<T("what's")>>>>,
              <<<<At("b"), Grp(1, Word("wheres", TRUE)), At("b")>>,
                <<T("where's")>>>>,
              <<<<At("b"), Grp(1, Word("theres", TRUE)), At("b")>>,
                <<T("there's")>>>>,
              <<<<At("b"), Grp(1, Word("thats", TRUE)), At("b")>>,
                <<T("that's")>>>>,
              <<<<At("b"), Grp(1, Word("re", TRUE)), Grp(2, <<Alt(<<Word("check", TRUE), Word("restart", TRUE), Word("send", TRUE), Word("reset", TRUE), Word("do", TRUE), Word("run", TRUE), Word("build", TRUE)>>)>>), At("b")>>,
                <<G(1), T("-"), G(2)>>>>,
              <<<<At("b"), Grp(1, Word("pre", TRUE)), Grp(2, <<Alt(<<Word("view", TRUE), Word("set", TRUE), Word("defined", TRUE), Word("configured", TRUE)>>)>>), At("b")>>,
                <<G(1), T("-"), G(2)>>>>,
              <<<<At("b"), Grp(1, Word("co", TRUE)), Grp(2, <<Alt(<<Word("operate", TRUE), Word("ordinate", TRUE), Word("author", TRUE)>>)>>), At("b")>>,
                <<G(1), T("-"), G(2)>>>>,
              <<<<At("b"), Grp(1, Word("multi", TRUE)), Grp(2, <<Alt(<<Word("purpose", TRUE), Word("factor", TRUE), Word("level", TRUE)>>)>>), At("b")>>,
                <<G(1), T("-"), G(2)>>>>,
              <<<<At("b"), Grp(1, Word("self", TRUE)), Grp(2, <<Alt(<<Word("service", TRUE), Word("help", TRUE), Word("hosted", TRUE)>>)>>), At("b")>>,
                <<G(1), T("-"), G(2)>>>>,
              <<<<At("b"), Grp(1, Word("real", TRUE)), Grp(2, Word("time", TRUE)), At("b")>>,
                <<G(1), T("-"), G(2)>>>>,
              <<<<At("b"), Grp(1, Word("up", TRUE)), Grp(2, Word("to", TRUE)), Grp(3, Word("date", TRUE)), At("b")>>,
                <<G(1), T("-"), G(2), T("-"), G(3)>>>>,
              <<<<At("b"), Grp(1, Word("state", TRUE)), Grp(2, Word("of", TRUE)), Grp(3, Word("the", TRUE)), Grp(4, Word("art", TRUE)), At("b")>>,
                <<G(1), T("-"), G(2), T("-"), G(3), T("-"), G(4)>>>>,
              <<<<Rep(<<Ch(Whitespace)>>, 1, Inf), Grp(1, <<Ch({"!", ",", ".", ":", ";", "?"})>>)>>,
                <<G(1)>>>>,
              <<<<Grp(1, <<Ch({"!", ",", ".", ":", ";", "?"})>>), Grp(2, <<Ch(Letters)>>)>>,
                <<G(1), T(" "), G(2)>>>>,
              <<<<Rep(<<Ch(Whitespace)>>, 1, Inf)>>,
                <<T(" ")>>>>>>, 1, spaced))

\* text with every line stripped
strip_lines(text) ==
    LET lines == split(text, <<"\n">>) IN
    join([i \in 1..Len(lines) |-> strip(lines[i])], <<"\n">>)

format_response_lists(text) ==
    strip(strip_lines(SubAll(
            <<<<<<Grp(1, Word("follow these step", TRUE) \o <<Rep(Word("s", TRUE), 0, 1), Rep(Word(":", TRUE), 0, 1)>>), Rep(<<Ch(Whitespace)>>, 0, Inf), Grp(2, <<Rep(<<Ch(Digits)>>, 1, Inf)>> \o Word(".", TRUE))>>,
                <<G(1), T("\n\n"), G(2)>>>>,
              <<<<Grp(1, Word("here are the step", TRUE) \o <<Rep(Word("s", TRUE), 0, 1), Rep(Word(":", TRUE), 0, 1)>>), Rep(<<Ch(Whitespace)>>, 0, Inf), Grp(2, <<Rep(<<Ch(Digits)>>, 1, Inf)>> \o Word(".", TRUE))>>,
                <<G(1), T("\n\n"), G(2)>>>>,
              <<<<Grp(1, Word("try these step", TRUE) \o <<Rep(Word("s", TRUE), 0, 1), Rep(Word(":", TRUE), 0, 1)>>), Rep(<<Ch(Whitespace)>>, 0, Inf), Grp(2, <<Rep(<<Ch(Digits)>>, 1, Inf)>> \o Word(".", TRUE))>>,
                <<G(1), T("\n\n"), G(2)>>>>,
              <<<<Grp(1, Word("please try", TRUE) \o <<Rep(Word(":", TRUE), 0, 1)>>), Rep(<<Ch(Whitespace)>>, 0, Inf), Grp(2, <<Rep(<<Ch(Digits)>>, 1, Inf)>> \o Word(".", TRUE))>>,
                <<G(1), T("\n\n"), G(2)>>>>,
              <<<<Grp(1, Word("steps to follow", TRUE) \o <<Rep(Word(":", TRUE), 0, 1)>>), Rep(<<Ch(Whitespace)>>, 0, Inf), Grp(2, <<Rep(<<Ch(Digits)>>, 1, Inf)>> \o Word(".", TRUE))>>,
                <<G(1), T("\n\n"), G(2)>>>>,
              <<<<Grp(1, Word("you can", TRUE) \o <<Rep(Word(":", TRUE), 0, 1)>>), Rep(<<Ch(Whitespace)>>, 0, Inf), Grp(2, <<Rep(<<Ch(Digits)>>, 1, Inf)>> \o Word(".", TRUE))>>,
                <<G(1), T("\n\n"), G(2)>>>>,
              <<<<Grp(1, Word("to do this", TRUE) \o <<Rep(Word(":", TRUE), 0, 1)>>), Rep(<<Ch(Whitespace)>>, 0, Inf), Grp(2, <<Rep(<<Ch(Digits)>>, 1, Inf)>> \o Word(".", TRUE))>>,
                <<G(1), T("\n\n"), G(2)>>>>>>
            \o
            <<<<<<Grp(1, <<Ch({"!", ".", "?"})>>), Rep(<<Ch(Whitespace)>>, 1, Inf), Grp(2, <<Rep(<<Ch(Digits)>>, 1, Inf)>> \o Word(".", FALSE) \o <<Rep(<<Ch(Whitespace)>>, 1, Inf)>>)>>,
                <<G(1), T("\n\n"), G(2)>>>>,
              <<<<Grp(1, <<Rep(<<Ch(Digits)>>, 1, Inf)>> \o Word(".", FALSE) \o <<Rep(<<NotCh({"\n", "!", ".", "?"})>>, 1, Inf), Rep(<<Ch({"!", ".", "?"})>>, 0, 1)>>), Rep(<<Ch(Whitespace)>>, 1, Inf), Grp(2, <<Rep(<<Ch(Digits)>>, 1, Inf)>> \o Word(".", FALSE) \o <<Rep(<<Ch(Whitespace)>>, 1, Inf)>>)>>,
                <<G(1), T("\n\n"), G(2)>>>>,
              <<<<NotBehind(1, <<Ch({"\n"})>>), Grp(1, <<Rep(<<Ch(Digits)>>, 1, Inf)>> \o Word(".", FALSE) \o <<Rep(<<Ch(Whitespace)>>, 1, Inf), Ch(Uppercase)>>)>>,
                <<T("\n"), G(1)>>>>,
              <<<<NotBehind(1, <<Ch({"\n"})>>), Rep(<<Ch(Whitespace)>>, 0, Inf), Grp(1, <<Ch({"*", "-", Bullet})>>), Rep(<<Ch(Whitespace)>>, 1, Inf), Grp(2, <<Ch(Uppercase)>>)>>,
                <<T("\n"), G(1), T(" "), G(2)>>>>,
              <<<<Grp(1, Word("Plan detail", TRUE) \o <<Rep(Word("s", TRUE), 0, 1), Rep(Word(":", TRUE), 0, 1)>>), Rep(<<Ch(Whitespace)>>, 0, Inf), NotAhead(<<Ch({"\n"})>>)>>,
                <<T("\n\n"), G(1), T("\n")>>>>>>
            \o
            <<<<<<NotBehind(1, <<Ch({"\n"})>>), Grp(1, Word("Free Plan:", TRUE))>>,
                <<T("\n\n"), G(1)>>>>,
              <<<<Grp(1, Word("Free Plan:", TRUE)), Rep(<<Ch(Whitespace)>>, 0, Inf), Grp(2, <<Ch(Letters \cup {"-", Bullet})>>)>>,
                <<G(1), T("\n"), G(2)>>>>,
              <<<<NotBehind(1, <<Ch({"\n"})>>), Grp(1, Word("Pro Plan:", TRUE))>>,
                <<T("\n\n"), G(1)>>>>,
              <<<<Grp(1, Word("Pro Plan:", TRUE)), Rep(<<Ch(Whitespace)>>, 0, Inf), Grp(2, <<Ch(Letters \cup {"-", Bullet})>>)>>,
                <<G(1), T("\n"), G(2)>>>>,
              <<<<NotBehind(1, <<Ch({"\n"})>>), Grp(1, Word("Premium Plan:", TRUE))>>,
                <<T("\n\n"), G(1)>>>>,
              <<<<Grp(1, Word("Premium Plan:", TRUE)), Rep(<<Ch(Whitespace)>>, 0, Inf), Grp(2, <<Ch(Letters \cup {"-", Bullet})>>)>>,
                <<G(1), T("\n"), G(2)>>>>,
              <<<<NotBehind(1, <<Ch({"\n"})>>), Grp(1, Word("Enterprise Plan:", TRUE))>>,
                <<T("\n\n"), G(1)>>>>,
              <<<<Grp(1, Word("Enterprise Plan:", TRUE)), Rep(<<Ch(Whitespace)>>, 0, Inf), Grp(2, <<Ch(Letters \cup {"-", Bullet})>>)>>,
                <<G(1), T("\n"), G(2)>>>>,
              <<<<NotBehind(1, <<Ch({"\n"})>>), Grp(1, Word("Starter Plan:", TRUE))>>,
                <<T("\n\n"), G(1)>>>>,
              <<<<Grp(1, Word("Starter Plan:", TRUE)), Rep(<<Ch(Whitespace)>>, 0, Inf), Grp(2, <<Ch(Letters \cup {"-", Bullet})>>)>>,
                <<G(1), T("\n"), G(2)>>>>,
              <<<<NotBehind(1, <<Ch({"\n"})>>), Grp(1, Word("Basic Plan:", TRUE))>>,
                <<T("\n\n"), G(1)>>>>,
              <<<<Grp(1, Word("Basic Plan:", TRUE)), Rep(<<Ch(Whitespace)>>, 0, Inf), Grp(2, <<Ch(Letters \cup {"-", Bullet})>>)>>,
                <<G(1), T("\n"), G(2)>>>>>>
            \o
            <<<<<<NotBehind(1, <<Ch({"\n"})>>), Grp(1, Word("Step", TRUE) \o <<Rep(<<Ch(Whitespace)>>, 1, Inf), Rep(<<Ch(Digits)>>, 1, Inf), Ch({".", ":"})>>), Rep(<<Ch(Whitespace)>>, 0, Inf)>>,
                <<T("\n\n"), G(1), T(" ")>>>>,
              <<<<Rep(Word(" ", FALSE), 1, Inf)>>,
                <<T(" ")>>>>,
              <<<<Rep(<<Ch({"\n"})>>, 4, Inf)>>,
                <<T("\n\n\n")>>>>>>, 1, text)))

format_response_presentable(text0) ==
    LET text == SubAll(
            <<<<<<NotBehind(2, <<Ch({"\n"}), Ch({"\n"})>>), Grp(1, Word("Would you like", TRUE) \o <<Rep(<<NotCh({"?"})>>, 1, Inf)>> \o Word("?", TRUE))>>,
                <<T("\n\n"), G(1)>>>>,
              <<<<NotBehind(2, <<Ch({"\n"}), Ch({"\n"})>>), Grp(1, Word("Do you ", TRUE) \o <<Rep(<<NotCh({"?"})>>, 1, Inf)>> \o Word("?", TRUE))>>,
                <<T("\n\n"), G(1)>>>>,
              <<<<NotBehind(2, <<Ch({"\n"}), Ch({"\n"})>>), Grp(1, Word("Have I ", TRUE) \o <<Rep(<<NotCh({"?"})>>, 1, Inf)>> \o Word("?", TRUE))>>,
                <<T("\n\n"), G(1)>>>>,
              <<<<NotBehind(2, <<Ch({"\n"}), Ch({"\n"})>>), Grp(1, Word("Should I ", TRUE) \o <<Rep(<<NotCh({"?"})>>, 1, Inf)>> \o Word("?", TRUE))>>,
                <<T("\n\n"), G(1)>>>>,
              <<<<NotBehind(2, <<Ch({"\n"}), Ch({"\n"})>>), Grp(1, Word("Can I ", TRUE) \o <<Rep(<<NotCh({"?"})>>, 1, Inf)>> \o Word("?", TRUE))>>,
                <<T("\n\n"), G(1)>>>>,
              <<<<NotBehind(2, <<Ch({"\n"}), Ch({"\n"})>>), Grp(1, Word("Shall I ", TRUE) \o <<Rep(<<NotCh({"?"})>>, 1, Inf)>> \o Word("?", TRUE))>>,
                <<T("\n\n"), G(1)>>>>,
              <<<<NotBehind(2, <<Ch({"\n"}), Ch({"\n"})>>), Grp(1, Word("For more information", TRUE) \o <<Rep(<<NotCh({"?"})>>, 1, Inf)>> \o Word("?", TRUE))>>,
                <<T("\n\n"), G(1)>>>>,
              <<<<NotBehind(2, <<Ch({"\n"}), Ch({"\n"})>>), Grp(1, Word("Is there ", TRUE) \o <<Rep(<<NotCh({"?"})>>, 1, Inf)>> \o Word("?", TRUE))>>,
                <<T("\n\n"), G(1)>>>>,
              <<<<NotBehind(2, <<Ch({"\n"}), Ch({"\n"})>>), Grp(1, Word("Did this ", TRUE) \o <<Rep(<<NotCh({"?"})>>, 1, Inf)>> \o Word("?", TRUE))>>,
                <<T("\n\n"), G(1)>>>>,
              <<<<NotBehind(2, <<Ch({"\n"}), Ch({"\n"})>>), Grp(1, Word("Does this ", TRUE) \o <<Rep(<<NotCh({"?"})>>, 1, Inf)>> \o Word("?", TRUE))>>,
                <<T("\n\n"), G(1)>>>>>>
            \o
            <<<<<<Grp(1, Word("Ticket ", FALSE) \o <<Alt(<<Word("Number", FALSE), Word("ID", FALSE)>>)>> \o Word(":", FALSE) \o <<Rep(<<Ch(Whitespace)>>, 0, Inf)>> \o Word("NVS", FALSE) \o <<Rep(<<Ch(Digits)>>, 1, Inf)>>)>>,
                <<T("\n"), G(1)>>>>,
              <<<<Grp(1, <<Alt(<<Word("Error", TRUE), Word("Solution", TRUE), Word("Note", TRUE), Word("Tip", TRUE), Word("Warning", TRUE), Word("Important", TRUE)>>)>> \o Word(":", TRUE)), Rep(<<Ch(Whitespace)>>, 0, Inf)>>,
                <<T("\n\n"), G(1), T("\n")>>>>>>
            \o
            <<<<<<Grp(1, <<Ch({"!", ".", "?"})>>), Rep(<<Ch(Whitespace)>>, 1, Inf), Grp(2, Word("To ", FALSE))>>,
                <<G(1), T("\n\n"), G(2)>>>>,
              <<<<Grp(1, <<Ch({"!", ".", "?"})>>), Rep(<<Ch(Whitespace)>>, 1, Inf), Grp(2, Word("For ", FALSE))>>,
                <<G(1), T("\n\n"), G(2)>>>>,
              <<<<Grp(1, <<Ch({"!", ".", "?"})>>), Rep(<<Ch(Whitespace)>>, 1, Inf), Grp(2, Word("Please ", FALSE))>>,
                <<G(1), T("\n\n"), G(2)>>>>,
              <<<<Grp(1, <<Ch({"!", ".", "?"})>>), Rep(<<Ch(Whitespace)>>, 1, Inf), Grp(2, Word("You can ", FALSE))>>,
                <<G(1), T("\n\n"), G(2)>>>>,
              <<<<Grp(1, <<Ch({"!", ".", "?"})>>), Rep(<<Ch(Whitespace)>>, 1, Inf), Grp(2, Word("Try ", FALSE))>>,
                <<G(1), T("\n\n"), G(2)>>>>,
              <<<<Grp(1, <<Ch({"!", ".", "?"})>>), Rep(<<Ch(Whitespace)>>, 1, Inf), Grp(2, Word("Follow ", FALSE))>>,
                <<G(1), T("\n\n"), G(2)>>>>,
              <<<<Grp(1, <<Ch({"!", ".", "?"})>>), Rep(<<Ch(Whitespace)>>, 1, Inf), Grp(2, Word("First ", FALSE))>>,
                <<G(1), T("\n\n"), G(2)>>>>,
              <<<<Grp(1, <<Ch({"!", ".", "?"})>>), Rep(<<Ch(Whitespace)>>, 1, Inf), Grp(2, Word("Second ", FALSE))>>,
                <<G(1), T("\n\n"), G(2)>>>>,
              <<<<Grp(1, <<Ch({"!", ".", "?"})>>), Rep(<<Ch(Whitespace)>>, 1, Inf), Grp(2, Word("Third ", FALSE))>>,
                <<G(1), T("\n\n"), G(2)>>>>,
              <<<<Grp(1, <<Ch({"!", ".", "?"})>>), Rep(<<Ch(Whitespace)>>, 1, Inf), Grp(2, Word("Next ", FALSE))>>,
                <<G(1), T("\n\n"), G(2)>>>>,
              <<<<Grp(1, <<Ch({"!", ".", "?"})>>), Rep(<<Ch(Whitespace)>>, 1, Inf), Grp(2, Word("Then ", FALSE))>>,
                <<G(1), T("\n\n"), G(2)>>>>,
              <<<<Grp(1, <<Ch({"!", ".", "?"})>>), Rep(<<Ch(Whitespace)>>, 1, Inf), Grp(2, Word("Finally ", FALSE))>>,
                <<G(1), T("\n\n"), G(2)>>>>,
              <<<<Grp(1, <<Ch({"!", ".", "?"})>>), Rep(<<Ch(Whitespace)>>, 1, Inf), Grp(2, Word("Additionally ", FALSE))>>,
                <<G(1), T("\n\n"), G(2)>>>>,
              <<<<Grp(1, <<Ch({"!", ".", "?"})>>), Rep(<<Ch(Whitespace)>>, 1, Inf), Grp(2, Word("Also ", FALSE))>>,
                <<G(1), T("\n\n"), G(2)>>>>,
              <<<<Grp(1, <<Ch({"!", ".", "?"})>>), Rep(<<Ch(Whitespace)>>, 1, Inf), Grp(2, Word("Furthermore ", FALSE))>>,
                <<G(1), T("\n\n"), G(2)>>>>,
              <<<<Grp(1, <<Ch({"!", ".", "?"})>>), Rep(<<Ch(Whitespace)>>, 1, Inf), Grp(2, Word("However ", FALSE))>>,
                <<G(1), T("\n\n"), G(2)>>>>>>, 1, text0)
        pricing == IF /\ contains(text, "Plan")
                      /\ \E word \in {"websites", "month", "pricing", "features"} :
                             contains(text, word)
                   THEN SubAll(
            <<<<<<NotBehind(2, <<Ch({"\n"}), Ch({"\n"})>>), Grp(1, Word("Free Plan", TRUE))>>,
                <<T("\n\n"), G(1)>>>>,
              <<<<NotBehind(2, <<Ch({"\n"}), Ch({"\n"})>>), Grp(1, Word("Pro Plan", TRUE))>>,
                <<T("\n\n"), G(1)>>>>,
              <<<<NotBehind(2, <<Ch({"\n"}), Ch({"\n"})>>), Grp(1, Word("Enterprise Plan", TRUE))>>,
                <<T("\n\n"), G(1)>>>>,
              <<<<NotBehind(2, <<Ch({"\n"}), Ch({"\n"})>>), Grp(1, Word("Premium Plan", TRUE))>>,
                <<T("\n\n"), G(1)>>>>,
              <<<<NotBehind(2, <<Ch({"\n"}), Ch({"\n"})>>), Grp(1, Word("Starter Plan", TRUE))>>,
                <<T("\n\n"), G(1)>>>>,
              <<<<Grp(1, <<NotCh({"\n"})>>), Ch({Bullet})>>,
                <<G(1), Text(<<"\n", Bullet>>)>>>>,
              <<<<Ch({Bullet}), Rep(<<Ch(Whitespace)>>, 0, Inf), Grp(1, <<Rep(<<NotCh({"\n"})>>, 1, Inf)>>), Rep(<<Ch(Whitespace)>>, 0, Inf), Ch({Bullet})>>,
                <<Text(<<Bullet, " ">>), G(1), Text(<<"\n", Bullet>>)>>>>>>, 1, text)
                   ELSE text
    IN SubAll(
            <<<<<<Rep(<<Ch(Whitespace)>>, 0, Inf), Ch({"\n"}), Rep(<<Ch(Whitespace)>>, 0, Inf)>>,
                <<T("\n")>>>>,
              <<<<Rep(<<Ch({"\n"})>>, 4, Inf)>>,
                <<T("\n\n")>>>>,
              <<<<At("start"), Rep(<<Ch({"\n"})>>, 1, Inf)>>,
                << >>>>,
              <<<<Rep(<<Ch({"\n"})>>, 1, Inf), At("end")>>,
                << >>>>>>, 1, pricing)

\* "Ensure "Have I resolved your query?" is always on a new paragraph"
question_paragraph(response_text) ==
    IF contains(response_text, "Have I resolved your query?")
    THEN SubAll(
            <<<<<<Rep(<<Ch({"\n"})>>, 3, Inf)>> \o Word("Have I resolved your query?", FALSE),
                <<T("\n\nHave I resolved your query?")>>>>>>, 1,
             ReplaceAll(<<<<" Have I resolved your query?", "\n\nHave I resolved your query?">>,
                          <<"\nHave I resolved your query?", "\n\nHave I resolved your query?">>>>,
                        1, response_text))
    ELSE response_text


\* "FINAL EMAIL FIX" and "FINAL CLEANUP"
final_email_fix(response_text) ==
    SubAll(
            <<<<Word("support@support@novarsistech.com", TRUE),
                <<T("support@novarsistech.com")>>>>,
              <<Word("support@support@", TRUE),
                <<T("support@")>>>>,
              <<Word("support", TRUE) \o <<Rep(Word("@", TRUE), 0, 1), Rep(<<Ch(Whitespace)>>, 0, Inf)>> \o Word("novarsis", TRUE) \o <<Rep(<<Ch(Whitespace)>>, 0, Inf)>> \o Word("tech", TRUE) \o <<Rep(<<Ch(Whitespace)>>, 0, Inf)>> \o Word(".", TRUE) \o <<Rep(<<Ch(Whitespace)>>, 0, Inf), Ch({"C", "c"})>> \o Word("om", TRUE),
                <<T("support@novarsistech.com")>>>>,
              <<Word("contact", TRUE) \o <<Rep(<<Ch(Whitespace)>>, 1, Inf)>> \o Word("us", TRUE) \o <<Rep(<<Ch(Whitespace)>>, 1, Inf), Alt(<<Word("on", TRUE), Word("at", TRUE)>>), Rep(<<Ch(Whitespace)>>, 1, Inf), Rep(<<Ch(Whitespace)>>, 0, Inf)>> \o Word("novarsis", TRUE) \o <<Rep(<<Ch(Whitespace)>>, 0, Inf)>> \o Word("tech", TRUE) \o <<Rep(<<Ch(Whitespace)>>, 0, Inf)>> \o Word(".", TRUE) \o <<Rep(<<Ch(Whitespace)>>, 0, Inf), Ch({"C", "c"})>> \o Word("om", TRUE),
                <<T("support@novarsistech.com")>>>>,
              <<Word("For more information", TRUE) \o <<Rep(<<Ch({",", "."})>>, 0, 1), Rep(<<Ch(Whitespace)>>, 0, Inf)>> \o Word("please contact us on", TRUE) \o <<Rep(<<Ch(Whitespace)>>, 0, Inf)>>,
                <<T("Contact Us: ")>>>>,
              <<Word("For more information", TRUE) \o <<Rep(<<Ch({",", "."})>>, 0, 1), Rep(<<Ch(Whitespace)>>, 0, Inf)>> \o Word("contact us at", TRUE) \o <<Rep(<<Ch(Whitespace)>>, 0, Inf)>>,
                <<T("Contact Us: ")>>>>>>, 1, response_text)

\* "ABSOLUTE FINAL DOMAIN FIX" for one domain of user_input
final_fix_of(clean_domain, domain_name, domain_ext, response_text) ==
    ReplaceTexts(<<<<domain_name \o Chars(".") \o capitalize(domain_ext), clean_domain>>,
                   <<domain_name \o Chars(". ") \o capitalize(domain_ext), clean_domain>>,
                   <<domain_name \o Chars(" . ") \o capitalize(domain_ext), clean_domain>>>>,
                 sub(escape(domain_name) \o <<Spaces(0), Dot, Spaces(0)>> \o escape(domain_ext),
                     <<Text(clean_domain)>>, response_text))

final_fix_parts(clean_domain, parts, response_text) ==
    final_fix_of(clean_domain, parts[1], parts[Len(parts)], response_text)

\* "ABSOLUTE FINAL DOMAIN FIX", for the domains from the i-th on
RECURSIVE final_domain_fix(_, _, _)
RECURSIVE final_fix_more(_, _, _)
final_domain_fix(domains, i, response_text) ==
    IF i > Len(domains) THEN response_text
    ELSE final_fix_more(domains, i + 1,
                        final_fix_parts(strip(to_lower(domains[i])),
                                        split(strip(to_lower(domains[i])), <<".">>),
                                        response_text))

final_fix_more(domains, i, fixed) ==
    IF Len(fixed) = 0 THEN fixed ELSE final_domain_fix(domains, i, fixed)

filter_other_tools(text) ==
    SubAll(
            <<<<<<At("b")>> \o Word("SEMrush", TRUE) \o <<At("b")>>,
                <<T("Novarsis SEO Tool")>>>>,
              <<<<At("b")>> \o Word("Ahrefs", TRUE) \o <<At("b")>>,
                <<T("Novarsis SEO Tool")>>>>,
              <<<<At("b")>> \o Word("Moz", TRUE) \o <<At("b")>>,
                <<T("Novarsis SEO Tool")>>>>,
              <<<<At("b")>> \o Word("Screaming Frog", TRUE) \o <<At("b")>>,
                <<T("Novarsis SEO Tool")>>>>,
              <<<<At("b")>> \o Word("Google Search Console", TRUE) \o <<At("b")>>,
                <<T("Novarsis SEO Tool")>>>>,
              <<<<At("b")>> \o Word("GTmetrix", TRUE) \o <<At("b")>>,
                <<T("Novarsis SEO Tool")>>>>,
              <<<<At("b")>> \o Word("PageSpeed Insights", TRUE) \o <<At("b")>>,
                <<T("Novarsis SEO Tool")>>>>,
              <<<<At("b")>> \o Word("Schema.org", TRUE) \o <<At("b")>>,
                <<T("Novarsis SEO Tool")>>>>,
              <<<<At("b")>> \o Word("Yoast SEO", TRUE) \o <<At("b")>>,
                <<T("Novarsis SEO Tool")>>>>,
              <<<<At("b")>> \o Word("Rank Math", TRUE) \o <<At("b")>>,
                <<T("Novarsis SEO Tool")>>>>,
              <<<<At("b")>> \o Word("Ubersuggest", TRUE) \o <<At("b")>>,
                <<T("Novarsis SEO Tool")>>>>,
              <<<<At("b")>> \o Word("Majestic", TRUE) \o <<At("b")>>,
                <<T("Novarsis SEO Tool")>>>>,
              <<<<At("b")>> \o Word("Serpstat", TRUE) \o <<At("b")>>,
                <<T("Novarsis SEO Tool")>>>>,
              <<<<At("b")>> \o Word("SpyFu", TRUE) \o <<At("b")>>,
                <<T("Novarsis SEO Tool")>>>>>>
        \o
            <<<<<<At("b"), Grp(1, <<Alt(<<Word("other", TRUE), Word("external", TRUE), Word("third-party", TRUE)>>)>>), Rep(<<Ch(Whitespace)>>, 1, Inf), Grp(2, <<Alt(<<Word("tools", TRUE), Word("software", TRUE), Word("platforms", TRUE)>>)>>), At("b")>>,
                <<T("Novarsis SEO Tool features")>>>>,
              <<<<At("b")>> \o Word("tools", TRUE) \o <<Rep(<<Ch(Whitespace)>>, 1, Inf), Grp(1, <<Alt(<<Word("like", TRUE), Word("such as", TRUE)>>)>>), Rep(<<Ch(Whitespace)>>, 1, Inf), Ch(Letters), Rep(<<Ch(Letters \cup Whitespace)>>, 1, Inf), At("b")>>,
                <<T("Novarsis SEO Tool")>>>>>>, 1, text)

\* the passes of the sanitization in the order of the code
Passes ==
    <<"fix_domain_spacing", "fix_user_domains", "fix_any_domain", "fix_user_email",
      "fix_all_emails", "space_alphanumerics", "fix_email_format", "clean_grammar",
      "pricing_fix", "format_response_text", "clean_response", "split_bullets",
      "fix_common_spacing_issues", "format_response_lists", "format_response_presentable",
      "question_paragraph", "final_email_fix", "final_domain_fix", "filter_other_tools",
      "strip">>

\* one pass on response_text; raised says that the pass raises re.error
Pass(name, response_text, user_input) ==
    IF name = "fix_user_email" THEN fix_user_email(response_text, user_email_of(user_input))
    ELSE [raised |-> FALSE,
          text |->
            CASE name = "fix_domain_spacing" -> fix_domain_spacing(response_text)
              [] name = "fix_user_domains" ->
                    fix_user_domains(user_domains(user_input), 1, response_text)
              [] name = "fix_any_domain" -> fix_any_domain(response_text)
              [] name = "fix_all_emails" ->
                    fix_all_emails(response_text, user_email_of(user_input))
              [] name = "space_alphanumerics" -> space_alphanumerics(response_text)
              [] name = "fix_email_format" -> fix_email_format(response_text)
              [] name = "clean_grammar" -> clean_grammar(response_text)
              [] name = "pricing_fix" -> pricing_fix(response_text)
              [] name = "format_response_text" -> format_response_text(response_text)
              [] name = "clean_response" -> clean_response(response_text)
              [] name = "split_bullets" -> split_bullets(response_text)
              [] name = "fix_common_spacing_issues" -> fix_common_spacing_issues(response_text)
              [] name = "format_response_lists" -> format_response_lists(response_text)
              [] name = "format_response_presentable" ->
                    format_response_presentable(response_text)
              [] name = "question_paragraph" -> question_paragraph(response_text)
              [] name = "final_email_fix" -> final_email_fix(response_text)
              [] name = "final_domain_fix" ->
                    final_domain_fix(
                        findall(<<At("b"), Grp(1, <<Rep(<<Ch(Letters \cup Digits \cup {"-"})>>, 1, Inf)>> \o Word(".", TRUE) \o <<Rep(<<Ch(Letters)>>, 2, Inf)>>), At("b")>>, user_input),
                        1, response_text)
              [] name = "filter_other_tools" -> filter_other_tools(response_text)
              [] name = "strip" -> strip(response_text)]

\* the passes from..to one after the other, up to the first that raises:
\* what each of them returns
RECURSIVE RunPasses(_, _, _, _)
RECURSIVE RunMore(_, _, _, _)
RunPasses(from, to, response_text, user_input) ==
    IF from = to THEN <<Pass(Passes[from], response_text, user_input)>>
    ELSE RunMore(RunPasses(from, (from + to) \div 2, response_text, user_input),
                 (from + to) \div 2 + 1, to, user_input)

RunMore(done, from, to, user_input) ==
    IF done[Len(done)].raised THEN done
    ELSE done \o RunPasses(from, to, done[Len(done)].text, user_input)

Last(s) == s[Len(s)]

\* get_ai_response from "ULTRA EARLY FIX" to "return response_text.strip()":
\* the text returned, or raised when re.error is raised on the way
sanitize(response_text, user_input) == Last(RunPasses(1, Len(Passes), response_text, user_input))

(***************************************************************************)
(* remove_duplicate_pricing, which no other function calls.                *)
(***************************************************************************)
\* the plan a line of remove_duplicate_pricing is the header of, None when it
\* is no header
plan_of(line_lower) ==
    IF contains(line_lower, "free plan") THEN "free plan"
    ELSE IF contains(line_lower, "pro plan") THEN "pro plan"
    ELSE IF contains(line_lower, "enterprise") /\ ~contains(line_lower, "plan")
    THEN "enterprise"
    ELSE None

\* the last branch of the loop: the line names no plan
names_no_plan(line_lower) ==
    ~(\E p \in {"free plan", "pro plan", "enterprise"} : contains(line_lower, p))

\* the loop of remove_duplicate_pricing from the i-th line on:
\* filtered_lines at its end
RECURSIVE filter_plans(_, _, _, _, _)
filter_plans(lines, i, seen_plans, current_plan, filtered_lines) ==
    IF i > Len(lines) THEN filtered_lines
    ELSE LET line == lines[i]
             line_lower == strip(to_lower(line))
             plan == plan_of(line_lower)
         IN IF plan # None
            THEN IF plan \notin seen_plans
                 THEN filter_plans(lines, i + 1, seen_plans \cup {plan}, plan,
                                   Append(filtered_lines, line))
                 ELSE filter_plans(lines, i + 1, seen_plans, None, filtered_lines)
            ELSE IF current_plan # None \/ names_no_plan(line_lower)
            THEN filter_plans(lines, i + 1, seen_plans, current_plan,
                              Append(filtered_lines, line))
            ELSE filter_plans(lines, i + 1, seen_plans, current_plan, filtered_lines)

remove_duplicate_pricing(text) ==
    join(filter_plans(split(text, <<"\n">>), 1, {}, None, << >>), <<"\n">>)

(***************************************************************************)
(* The generator call and what get_ai_response makes of its text.          *)
(***************************************************************************)
\* what requests.post does in call_groq_api: it raises, or it returns a
\* response with a status code and, with 200, the content of the first choice
Generated(content) == [raises |-> None, status_code |-> 200, content |-> content]

\* the results that are failures of the generator
GroqFailures ==
    {[raises |-> None, status_code |-> 400, content |-> None],
     [raises |-> None, status_code |-> 429, content |-> None],
     [raises |-> None, status_code |-> 500, content |-> None],
     [raises |-> "ConnectionError", status_code |-> None, content |-> None],
     [raises |-> "Timeout", status_code |-> None, content |-> None]}

\* call_groq_api: the text it returns for a result of requests.post (a 400
\* response carries no error message, codes other than 200, 400 and 404 go
\* through error_messages)
call_groq_api(r) ==
    IF r.raises = "ConnectionError"
    THEN "I'm having trouble connecting to the Groq AI service. Please check your internet connection or try again in a moment."
    ELSE IF r.raises = "Timeout"
    THEN "The Groq service is taking longer than expected. Please try again with a simpler query."
    ELSE IF r.raises # None
    THEN "I'm experiencing a temporary issue with the Groq service. Please try your question again, or for immediate assistance, contact us at support@novarsistech.com"
    ELSE IF r.status_code = 200 THEN r.content
    ELSE IF r.status_code = 400
    THEN "Request format error. Please try again or contact support@novarsistech.com"
    ELSE IF r.status_code = 401 THEN "API key invalid. Please check configuration."
    ELSE IF r.status_code = 429 THEN "Rate limit exceeded. Please wait and retry."
    ELSE IF r.status_code = 500 THEN "Server error. Service temporarily unavailable."
    ELSE IF r.status_code = 503 THEN "Service unavailable. Please try again later."
    ELSE "API Error (" \o Str(Decimal(r.status_code)) \o "). Please try again."

\* the text of the except handler of get_ai_response
TemporaryIssue ==
    "I'm experiencing a temporary issue. Please try your question again, or for immediate assistance, contact us at support@novarsistech.com"

\* "Check if API returned an error" of get_ai_response
is_api_error(response_text) ==
    \/ ContainsDirect(response_text, "Error:")
    \/ ContainsDirect(LowerDirect(response_text), "cannot connect")

\* the texts whose lower-case form and substrings are tabulated
MemoTexts ==
    {r.message : r \in Requests} \cup {EnhancedPrefix \o r.message : r \in Requests}
        \cup GeneratorReplies \cup UserTexts \cup BotTexts \cup FilterTexts
        \cup ClassifyTexts \cup ScopeQueries \cup WindowUserTexts \cup WindowBotTexts
        \cup SuggestUserTexts \cup SuggestBotTexts \cup SuggestInputs \cup MobileInputs
        \cup QuickActionTexts
        \cup {ToolResponses[k] : k \in 1..Len(ToolResponses)}
        \cup {IntroMobile, IntroWeb, ContactBlock, Acknowledgement, RedirectMessage,
              ImageOnlyMessage}

\* the longest word whose occurrences are tabulated
MemoWordLen == 24

\* the words of at most MemoWordLen characters that occur in t
SubstringsUpTo(t) ==
    UNION {{SubSeq(w, 1, n) : n \in 0..Len(w)} :
             w \in {SubSeq(t, i, IF i + MemoWordLen - 1 < Len(t)
                                 THEN i + MemoWordLen - 1 ELSE Len(t)) : i \in 1..Len(t)}}

LowerIn(texts) == [t \in texts |-> LowerDirect(t)]

LowerOf == LowerIn(MemoTexts)

LowerWith(table, s) == IF s \in DOMAIN table THEN table[s] ELSE LowerDirect(s)

\* str.lower()
Lower(s) == LowerWith(LowerOf, s)

SubstringsIn(texts) ==
    [t \in texts \cup {LowerDirect(m) : m \in texts} |-> SubstringsUpTo(t)]

SubstringsOf == SubstringsIn(MemoTexts)

ContainsWith(table, s, w) ==
    IF s \in DOMAIN table /\ Len(w) <= MemoWordLen /\ Len(w) > 0
    THEN w \in table[s] ELSE ContainsDirect(s, w)

\* "w in s" on strings
Contains(s, w) == ContainsWith(SubstringsOf, s, w)

\* any(word in s for word in words)
AnyIn(words, s) == \E k \in 1..Len(words) : Contains(s, words[k])

\* s.endswith(w)
EndsWith(s, w) ==
    /\ Len(s) >= Len(w)
    /\ SubSeq(s, Len(s) - Len(w) + 1, Len(s)) = w

IsSpace(c) == c \in {" ", "\n", "\t", "\r"}

RECURSIVE LStrip(_)
LStrip(s) ==
    IF Len(s) > 0 /\ IsSpace(CharAt(s, 1)) THEN LStrip(SubSeq(s, 2, Len(s))) ELSE s

RECURSIVE RStrip(_)
RStrip(s) ==
    IF Len(s) > 0 /\ IsSpace(CharAt(s, Len(s))) THEN RStrip(SubSeq(s, 1, Len(s) - 1)) ELSE s

\* str.strip()
Strip(s) == RStrip(LStrip(s))

(***************************************************************************)
(* State.                                                                  *)
(***************************************************************************)
VARIABLES
    fast_mcp,    \* the FastMCP instance of the process: a record of its fields
    now,         \* datetime.now(), a logical clock
    last_call,   \* the call made by the last step and its result
    last_bot_message_ends_with_query_solved,   \* session_state flag
    platform,    \* session_state["platform"]
    pc,          \* per client: where its /api/chat request stands
    session_id,  \* per client: request.session_id of its request
    request,     \* per client: request.message and request.image_data inside the handler
    loop_owner,  \* the client whose handler holds the event loop, or NoClient
    delivered    \* the responses returned by /api/chat, in order

chat_vars == <<last_bot_message_ends_with_query_solved, platform, pc, session_id, request,
               loop_owner, delivered>>

vars == <<fast_mcp, now, last_call, last_bot_message_ends_with_query_solved, platform, pc,
          session_id, request, loop_owner, delivered>>

\* FastMCP.__init__ (entities is the dict {} or {'subject': noun})
FastMCP ==
    [conversation_memory |-> << >>,
     context_window |-> << >>,
     user_intent |-> None,
     entities |-> [subject |-> None],
     user_profile |-> [preferred_style |-> "concise", interaction_count |-> 0],
     conversation_state |-> [expecting_response |-> None,
                             last_question |-> None,
                             pending_action |-> None,
                             emotional_tone |-> "neutral"]]

(***************************************************************************)
(* Intent classifier.                                                      *)
(***************************************************************************)
IntentTags == {"question", "confirmation", "denial", "help_request", "problem_report",
               "gratitude", "elaboration_request", "statement"}

QuestionWords == <<"how", "what", "where", "when", "why">>
ConfirmationWords == <<"yes", "yeah", "sure", "okay", "ok", "yep", "yup">>
\* the bare "no" is missing from the negation words
DenialWords_without_no == <<"nope", "nah", "not">>

DenialWords == <<"no", "nope", "nah", "not">>
HelpWords == <<"help", "assist", "support">>
ProblemWords == <<"error", "issue", "problem", "broken", "not working">>
GratitudeWords == <<"thanks", "thank you", "appreciate">>
ElaborationWords == <<"more", "elaborate", "explain", "detail">>

\* the negation words are tested before the affirmative words
extract_intent_denial_first(message) ==
    LET message_lower == Lower(message) IN
    IF AnyIn(QuestionWords, message_lower) THEN "question"
    ELSE IF AnyIn(DenialWords, message_lower) THEN "denial"
    ELSE IF AnyIn(ConfirmationWords, message_lower) THEN "confirmation"
    ELSE IF AnyIn(HelpWords, message_lower) THEN "help_request"
    ELSE IF AnyIn(ProblemWords, message_lower) THEN "problem_report"
    ELSE IF AnyIn(GratitudeWords, message_lower) THEN "gratitude"
    ELSE IF AnyIn(ElaborationWords, message_lower) THEN "elaboration_request"
    ELSE "statement"

\* FastMCP.extract_intent
extract_intent(message) ==
    LET message_lower == Lower(message) IN
    IF AnyIn(QuestionWords, message_lower) THEN "question"
    ELSE IF AnyIn(ConfirmationWords, message_lower) THEN "confirmation"
    ELSE IF AnyIn(DenialWords, message_lower) THEN "denial"
    ELSE IF AnyIn(HelpWords, message_lower) THEN "help_request"
    ELSE IF AnyIn(ProblemWords, message_lower) THEN "problem_report"
    ELSE IF AnyIn(GratitudeWords, message_lower) THEN "gratitude"
    ELSE IF AnyIn(ElaborationWords, message_lower) THEN "elaboration_request"
    ELSE "statement"

(***************************************************************************)
(* FastMCP: analysis of a recorded turn.                                   *)
(***************************************************************************)
UrgencyWords == <<"urgent", "asap", "immediately", "quickly">>
DistressWords == <<"frustrated", "annoyed", "angry", "upset">>
PolitenessWords == <<"please", "thanks", "appreciate">>

\* the tone is recomputed from scratch on every user turn
ToneAfter_reset(tone, message) ==
    LET message_lower == Lower(message) IN
    IF AnyIn(UrgencyWords, message_lower) THEN "urgent"
    ELSE IF AnyIn(DistressWords, message_lower) THEN "frustrated"
    ELSE IF AnyIn(PolitenessWords, message_lower) THEN "polite"
    ELSE "neutral"

\* analyze_user_message, "Update emotional tone"
ToneAfter(tone, message) ==
    LET message_lower == Lower(message) IN
    IF AnyIn(UrgencyWords, message_lower) THEN "urgent"
    ELSE IF AnyIn(DistressWords, message_lower) THEN "frustrated"
    ELSE IF AnyIn(PolitenessWords, message_lower) THEN "polite"
    ELSE tone

\* the four tests are chained with elif: the first hit stays
SubjectAfter_first_hit(subject, message) ==
    LET message_lower == Lower(message)
    IN IF Contains(message_lower, "dashboard") THEN "dashboard"
       ELSE IF Contains(message_lower, "report") THEN "report"
       ELSE IF Contains(message_lower, "setting") THEN "settings"
       ELSE IF Contains(message_lower, "analysis") THEN "analysis"
       ELSE subject

\* analyze_user_message, "Extract entities": four independent ifs, the last hit stays
SubjectAfter(subject, message) ==
    LET message_lower == Lower(message)
        s1 == IF Contains(message_lower, "dashboard") THEN "dashboard" ELSE subject
        s2 == IF Contains(message_lower, "report") THEN "report" ELSE s1
        s3 == IF Contains(message_lower, "setting") THEN "settings" ELSE s2
        s4 == IF Contains(message_lower, "analysis") THEN "analysis" ELSE s3
    IN s4

\* FastMCP.analyze_user_message
analyze_user_message(mcp, message) ==
    [mcp EXCEPT !.conversation_state.emotional_tone = ToneAfter(@, message),
                !.entities.subject = SubjectAfter(@, message),
                !.user_profile.interaction_count = @ + 1]

\* a text with no question mark and no hand-off phrase clears the expectation
ExpectingAfter_cleared(expecting, message) ==
    LET message_lower == Lower(message)
        e1 == IF Contains(message, "?") THEN "answer" ELSE None
        e2 == IF Contains(message_lower, "need more help") \/ Contains(message_lower, "need help")
              THEN "help_confirmation" ELSE e1
        e3 == IF Contains(message_lower, "try these steps") \/ Contains(message_lower, "follow these")
              THEN "feedback_on_solution" ELSE e2
    IN e3

\* the two hand-off tests are made in the opposite order
ExpectingAfter_help_last(expecting, message) ==
    LET message_lower == Lower(message)
        e1 == IF Contains(message, "?") THEN "answer" ELSE expecting
        e2 == IF Contains(message_lower, "try these steps") \/ Contains(message_lower, "follow these")
              THEN "feedback_on_solution" ELSE e1
        e3 == IF Contains(message_lower, "need more help") \/ Contains(message_lower, "need help")
              THEN "help_confirmation" ELSE e2
    IN e3

\* analyze_bot_response: three independent ifs on the expectation, the last hit stays
ExpectingAfter(expecting, message) ==
    LET message_lower == Lower(message)
        e1 == IF Contains(message, "?") THEN "answer" ELSE expecting
        e2 == IF Contains(message_lower, "need more help") \/ Contains(message_lower, "need help")
              THEN "help_confirmation" ELSE e1
        e3 == IF Contains(message_lower, "try these steps") \/ Contains(message_lower, "follow these")
              THEN "feedback_on_solution" ELSE e2
    IN e3

\* analyze_bot_response: last_question
LastQuestionAfter(last_question, message) ==
    IF Contains(message, "?") THEN message ELSE last_question

\* FastMCP.analyze_bot_response
analyze_bot_response(mcp, message) ==
    [mcp EXCEPT !.conversation_state.last_question = LastQuestionAfter(@, message),
                !.conversation_state.expecting_response = ExpectingAfter(@, message)]

\* the eviction drops the newest entry instead of the oldest
WindowAfter_pop_last(window, entry) ==
    LET appended == Append(window, entry) IN
    IF Len(appended) > WindowSize THEN SubSeq(appended, 1, WindowSize) ELSE appended

\* update_context: the window after the append and the eviction
WindowAfter(window, entry) ==
    LET appended == Append(window, entry) IN
    IF Len(appended) > WindowSize THEN Tail(appended) ELSE appended

\* FastMCP.update_context, called on the tracker mcp at time timestamp
update_context(mcp, role, message, timestamp) ==
    LET entry == [role |-> role,
                  content |-> message,
                  timestamp |-> timestamp,
                  intent |-> IF role = "user" THEN extract_intent(message) ELSE None]
        appended == [mcp EXCEPT !.conversation_memory = Append(@, entry),
                                !.context_window = WindowAfter(@, entry)]
    IN IF role = "user" THEN analyze_user_message(appended, message)
                        ELSE analyze_bot_response(appended, message)

\* a pending plain answer does not suppress the filter
should_filter_novarsis_ignores_answer(mcp, message) ==
    IF mcp.conversation_state.expecting_response \in {"help_confirmation", "feedback_on_solution"}
    THEN FALSE
    ELSE IF extract_intent(message) \in {"confirmation", "denial", "elaboration_request"}
    THEN FALSE
    ELSE TRUE

\* FastMCP.should_filter_novarsis
should_filter_novarsis(mcp, message) ==
    IF mcp.conversation_state.expecting_response \in {"help_confirmation", "answer", "feedback_on_solution"}
    THEN FALSE
    ELSE IF extract_intent(message) \in {"confirmation", "denial", "elaboration_request"}
    THEN FALSE
    ELSE TRUE

(***************************************************************************)
(* Topical relevance filter.                                               *)
(***************************************************************************)
NOVARSIS_KEYWORDS ==
    <<"novarsis", "seo", "website analysis", "meta tags", "page structure", "link analysis",
      "seo check", "seo report", "subscription", "account", "billing", "plan", "premium",
      "starter", "error", "bug", "issue", "problem", "not working", "failed", "crash",
      "login", "password", "analysis", "report", "dashboard", "settings", "integration",
      "google", "api", "website", "url", "scan", "audit", "optimization", "mobile", "speed",
      "performance", "competitor", "ranking", "keywords", "backlinks", "technical seo",
      "canonical", "schema", "sitemap", "robots.txt", "crawl", "index", "search console",
      "analytics", "traffic", "organic", "serp", "navigate", "find", "locate", "access",
      "feature", "function", "tool", "how to", "where is", "how do i", "explain">>

CAUSAL_ALLOWED ==
    <<"hello", "hi", "hey", "who are you", "what are you", "what can you do",
      "how can you help", "help me", "assist", "support", "thanks", "thank you",
      "bye", "goodbye", "good morning", "good afternoon", "good evening",
      "yes", "no", "okay", "ok", "sure", "please", "sorry">>

UNRELATED_TOPICS ==
    <<"recipe", "cooking", "food", "biryani", "pizza", "travel", "vacation",
      "movie", "song", "music", "game", "sports", "cricket", "football",
      "weather", "politics", "news", "stock", "crypto", "bitcoin",
      "medical", "doctor", "medicine", "disease", "health">>

GREETING_KEYWORDS ==
    <<"hello", "hi", "hey", "greetings", "good morning", "good afternoon", "good evening">>

\* is_greeting
is_greeting(query) == AnyIn(GREETING_KEYWORDS, Strip(Lower(query)))

\* is_casual_allowed
is_casual_allowed(query) == AnyIn(CAUSAL_ALLOWED, Strip(Lower(query)))

\* is_clearly_unrelated
is_clearly_unrelated(query) == AnyIn(UNRELATED_TOPICS, Strip(Lower(query)))

\* the unrelated-topic test is made before the casual test
is_novarsis_related_unrelated_first(query) ==
    IF is_clearly_unrelated(query) THEN FALSE
    ELSE IF is_casual_allowed(query) THEN TRUE
    ELSE AnyIn(NOVARSIS_KEYWORDS, Lower(query))

\* is_novarsis_related
is_novarsis_related(query) ==
    IF is_casual_allowed(query) THEN TRUE
    ELSE IF is_clearly_unrelated(query) THEN FALSE
    ELSE AnyIn(NOVARSIS_KEYWORDS, Lower(query))

(***************************************************************************)
(* /api/chat: texts and helpers of the request handler.                    *)
(***************************************************************************)
Clients == 1..NumClients

\* the event loop is held by no handler
NoClient == 0

NoRequest == [message |-> None, image_data |-> FALSE]

\* get_intro_response
get_intro_response(session_platform) ==
    IF session_platform = "mobile" THEN IntroMobile ELSE IntroWeb

NoReplies == {"no", "nope", "not really", "not yet"}
\* thanks is not taken as a yes
YesReplies_without_thanks == {"yes", "yeah", "yep", "thank you"}

YesReplies == {"yes", "yeah", "yep", "thank you", "thanks"}

seo_keywords ==
    <<"error", "seo", "issue", "problem", "fix", "help", "analyze", "tool", "novarsis",
      "website", "meta", "tag", "speed", "mobile">>

\* "Special handling for image attachments": the message of a request with an image
AttachImage(message) ==
    IF message = "" \/ Strip(message) = "" THEN ImageOnlyMessage
    ELSE IF Len(Strip(message)) < 20
    THEN IF ~AnyIn(seo_keywords, Lower(message))
         THEN message \o ImageSuffix
         ELSE message \o ImageSeoSuffix
    ELSE message

IsWordChar(c) ==
    \/ c \in DOMAIN LowerMap
    \/ c \in {"a", "b", "c", "d", "e", "f", "g", "h", "i", "j", "k", "l", "m", "n", "o",
              "p", "q", "r", "s", "t", "u", "v", "w", "x", "y", "z",
              "0", "1", "2", "3", "4", "5", "6", "7", "8", "9", "_"}

\* the pattern \bword\b matches at position i of s, ignoring case
WordAt(s, word, i) ==
    /\ i + Len(word) - 1 <= Len(s)
    /\ Lower(SubSeq(s, i, i + Len(word) - 1)) = word
    /\ (i = 1 \/ ~IsWordChar(CharAt(s, i - 1)))
    /\ (i + Len(word) > Len(s) \/ ~IsWordChar(CharAt(s, i + Len(word))))

RECURSIVE SkipSpaces(_, _)
SkipSpaces(s, i) ==
    IF i <= Len(s) /\ IsSpace(CharAt(s, i))
    THEN SkipSpaces(s, i + 1) ELSE i

\* the end of [,.]?\s* started at position i
SkipSeparator(s, i) ==
    IF i <= Len(s) /\ CharAt(s, i) \in {",", "."} THEN SkipSpaces(s, i + 1) ELSE SkipSpaces(s, i)

RECURSIVE RemoveWordFrom(_, _, _)
RemoveWordFrom(s, word, i) ==
    IF i > Len(s) THEN ""
    ELSE IF WordAt(s, word, i) THEN RemoveWordFrom(s, word, SkipSeparator(s, i + Len(word)))
    ELSE CharAt(s, i) \o RemoveWordFrom(s, word, i + 1)

\* re.sub(rf'\b{greeting}\b[,.]?\s*', '', message, flags=re.IGNORECASE)
RemoveWord(s, word) == RemoveWordFrom(s, word, 1)

\* chat: the message without the first greeting keyword it contains, stripped
remaining_message(message) ==
    LET message_lower == Lower(message)
        hits == {k \in 1..Len(GREETING_KEYWORDS) : Contains(message_lower, GREETING_KEYWORDS[k])}
        first == CHOOSE k \in hits : \A j \in hits : k <= j
    IN IF hits = {} THEN Strip(message)
       ELSE Strip(RemoveWord(message, GREETING_KEYWORDS[first]))

enhanced_input(message) == EnhancedPrefix \o message

TOOL_SPECIFIC_KEYWORDS ==
    <<"my account", "my subscription", "my plan", "my billing", "my payment",
      "my reports", "my data", "my keywords", "my websites", "my dashboard",
      "my score", "my analysis", "my audit", "my history", "my settings",
      "my profile", "my api key", "my usage", "my limit", "my quota",
      "show me my", "check my", "view my", "what's my", "how many",
      "my current", "my recent", "my last", "my previous", "my active">>

SENSITIVE_KEYWORDS ==
    <<"billing", "payment", "credit card", "invoice", "receipt", "transaction",
      "subscription", "plan", "upgrade", "downgrade", "cancel", "renew",
      "api key", "password", "login", "security", "authentication",
      "personal data", "private information", "account details">>

\* re.search(r'head.*tail', s): head, then tail later on the same line
ContainsThen(s, head, tail) ==
    /\ Contains(s, head)
    /\ Contains(s, tail)
    /\ \E i \in 1..(Len(s) - Len(head) + 1) :
          /\ SubSeq(s, i, i + Len(head) - 1) = head
          /\ \E j \in (i + Len(head))..(Len(s) - Len(tail) + 1) :
                /\ SubSeq(s, j, j + Len(tail) - 1) = tail
                /\ ~Contains(SubSeq(s, i + Len(head), j - 1), "\n")

\* is_tool_specific_question
is_tool_specific_question(message) ==
    LET message_lower == Lower(message) IN
    \/ AnyIn(TOOL_SPECIFIC_KEYWORDS, message_lower)
    \/ AnyIn(SENSITIVE_KEYWORDS, message_lower)
    \/ ContainsThen(message_lower, "how many", "do i have")
    \/ ContainsThen(message_lower, "what is my", "score")
    \/ AnyIn(<<"show me my", "check my", "view my", "what are my", "when did i",
               "where can i find my", "how do i access my">>, message_lower)

\* get_tool_specific_response
get_tool_specific_response(message) ==
    LET message_lower == Lower(message) IN
    IF AnyIn(<<"report", "reports", "analysis", "audit">>, message_lower)
    THEN ToolResponses[1]
    ELSE IF AnyIn(<<"keyword", "keywords", "ranking", "rankings">>, message_lower)
    THEN ToolResponses[2]
    ELSE IF AnyIn(<<"billing", "payment", "invoice", "subscription", "plan">>, message_lower)
    THEN ToolResponses[3]
    ELSE IF AnyIn(<<"website", "websites", "site", "sites">>, message_lower)
    THEN ToolResponses[4]
    ELSE IF AnyIn(<<"api", "key", "integration">>, message_lower)
    THEN ToolResponses[5]
    ELSE IF AnyIn(<<"setting", "settings", "profile", "account">>, message_lower)
    THEN ToolResponses[6]
    ELSE ToolResponses[7]

(***************************************************************************)
(* Suggestions: get_mobile_quick_actions, detect_intent_from_text and      *)
(* get_context_suggestions.                                                *)
(***************************************************************************)
\* the position after the word of s that starts at position a
WordEnd(s, a) ==
    LET stops == {j \in a..Len(s) : IsSpace(CharAt(s, j))}
    IN IF stops = {} THEN Len(s) + 1 ELSE CHOOSE j \in stops : \A k \in stops : j <= k

RECURSIVE SplitFrom(_, _)
SplitFrom(s, i) ==
    LET a == SkipSpaces(s, i) IN
    IF a > Len(s) THEN << >>
    ELSE <<SubSeq(s, a, WordEnd(s, a) - 1)>> \o SplitFrom(s, WordEnd(s, a))

\* a text that is taken as one word
Split_unsplit(s) == <<s>>

\* str.split(): the words of s, runs of whitespace being the separators
Split(s) == SplitFrom(s, 1)

\* ' '.join(words)
RECURSIVE Join(_)
Join(words) ==
    IF Len(words) = 0 THEN ""
    ELSE IF Len(words) = 1 THEN words[1]
    ELSE words[1] \o " " \o Join(Tail(words))

\* any(word in user_words for word in words): user_words is a list of words
AnyWord(words, user_words) ==
    \E k \in 1..Len(words) : \E j \in 1..Len(user_words) : user_words[j] = words[k]

\* a mobile UI that is given one button more
MaxQuickActions_four == 3 + 1

\* the number of buttons the mobile UI is given
MaxQuickActions == 3

\* actions[:n]
Take(actions, n) == IF Len(actions) > n THEN SubSeq(actions, 1, n) ELSE actions

\* get_mobile_quick_actions
get_mobile_quick_actions(response) ==
    LET response_lower == Lower(response)
        a1 == IF Contains(response_lower, "support") THEN
                <<[text |-> ":telephone_receiver: Contact Support",
                action |-> "contact_support"]>> ELSE << >>
        a2 == IF Contains(response_lower, "dashboard") THEN
                Append(a1, [text |-> ":bar_chart: Go to Dashboard",
                action |-> "go_to_dashboard"]) ELSE a1
        a3 == IF Contains(response_lower, "report") THEN
                Append(a2, [text |-> ":chart_with_upwards_trend: View Reports",
                action |-> "view_reports"]) ELSE a2
        a4 == IF Contains(response_lower, "analysis") THEN
                Append(a3, [text |-> ":mag: Start Analysis", action |-> "start_analysis"]) ELSE a3
        a5 == IF Len(a4) < MaxQuickActions THEN
                Append(a4, [text |-> ":speech_balloon: Ask More",
                action |-> "continue_chat"]) ELSE a4
    IN Take(a5, MaxQuickActions)

\* the "quick_actions" of what chat returns: [] when the user answers the
\* closing question with no, no such key when the answer is yes (mobile_chat
\* reads that as []), the buttons chosen for the response otherwise
chat_quick_actions(closing_reply, response) ==
    IF closing_reply = "no" THEN << >>
    ELSE IF closing_reply = "yes" THEN << >>
    ELSE get_mobile_quick_actions(response)

\* fast_mcp_instance=None: the caller hands over no tracker
NoMCP == [fast_mcp_instance |-> None]

\* entry['content'].lower().split() for the entries of context_window[-3:]
RECURSIVE ContextWords(_)
ContextWords(entries) ==
    IF Len(entries) = 0 THEN << >>
    ELSE (IF entries[1].content # "" THEN Split(Lower(entries[1].content)) ELSE << >>)
            \o ContextWords(Tail(entries))

\* context_window[-3:]
LastThree(window) ==
    IF Len(window) > 3 THEN SubSeq(window, Len(window) - 2, Len(window)) ELSE window

\* detect_intent_from_text; None when the function ends without a return
detect_intent_from_text(message, mcp) ==
    LET message_lower == Strip(Lower(message))
        recent == IF mcp # NoMCP THEN ContextWords(LastThree(mcp.context_window)) ELSE << >>
        context_keywords == IF mcp # NoMCP /\ mcp.entities.subject # None
                            THEN Append(recent, mcp.entities.subject) ELSE recent
        combined_text == message_lower \o " " \o Join(context_keywords)
    IN IF AnyIn(<<"where", "find", "locate", "how to get to", "how to access", "how to reach",
                  "path", "navigate">>, combined_text)
       THEN "navigation"
       ELSE IF AnyIn(<<"how to use", "how does", "how do i", "explain", "what is", "feature",
                       "function", "tool">>, combined_text)
       THEN "features"
       ELSE IF AnyIn(<<"error", "issue", "problem", "not working", "failed", "stuck", "broken",
                       "fix", "help", "bug", "crash">>, combined_text)
       THEN "errors"
       ELSE IF AnyIn(<<"report", "export", "pdf", "schedule", "download", "generate",
                       "dashboard">>, combined_text)
       THEN "reports"
       ELSE IF AnyIn(<<"settings", "configure", "setup", "preference", "option", "custom">>,
                     combined_text)
       THEN "settings"
       ELSE IF AnyIn(<<"how", "what", "why", "when", "where", "kaise", "kya", "kab", "kahan",
                       "kyun", "which">>, combined_text)
       THEN "question"
       ELSE IF mcp # NoMCP /\ mcp.user_intent # None
       THEN IF mcp.user_intent \in {"help_request", "problem_report"} THEN "errors"
            ELSE IF mcp.user_intent = "question" THEN "question"
            ELSE None
       ELSE "general"

\* the suggestion sets of get_context_suggestions that answer the tone, and the one
\* for a typed question about where the reports are
UrgentSet ==
    <<"Fix this error now", "How to troubleshoot?", "Get immediate help">>
EmpatheticSet ==
    <<"Step-by-step solution", "Alternative approach", "Contact support team">>
NavReportSet ==
    <<"Where are the reports?", "How to find analysis results?", "Locate report section">>

\* a guard that lets inputs of two characters through
MinInputLen_two == 3 - 1

\* the shortest input suggestions are made for
MinInputLen == 3

\* the number of suggestions returned at most
MaxSuggestions == 3

\* get_context_suggestions from "fall back to intent-based suggestions" on
IntentSuggestions(intent, conversation_context, message_lower, mcp) ==
    IF intent = "navigation"
    THEN IF conversation_context = "dashboard" THEN
            <<"Where is the analysis tool?", "How to find reports?", "Where are settings?">>
         ELSE IF conversation_context = "reports" THEN
                 <<"How to generate new report?", "Where to find previous reports?",
                 "How to export reports?">>
         ELSE <<"Where is the dashboard?", "How to find reports?", "Where are settings?">>
    ELSE IF intent = "features" THEN
            <<"How to use website analysis?", "How does keyword research work?",
            "How to run competitor analysis?">>
    ELSE IF intent = "errors"
    THEN IF Contains(message_lower, "login") \/ conversation_context = "login" THEN
            <<"Fix login issues", "Can't access my account", "Password reset problems">>
         ELSE IF Contains(message_lower, "report") \/ conversation_context = "report"
         THEN <<"Report not generating", "Analysis stuck at 0%", "Data not loading">>
         ELSE <<"Fix this error", "Troubleshoot the issue", "Get technical help">>
    ELSE IF intent = "reports" THEN
            <<"Generate new report", "View previous reports", "Export report to PDF">>
    ELSE IF intent = "settings" THEN
            <<"Change notification settings", "Update account information",
            "Configure analysis preferences">>
    ELSE IF intent = "question"
    THEN IF conversation_context \in {"dashboard", "navigation"} THEN
            <<"How to navigate the tool?", "Where can I find features?",
            "How to access different sections?">>
         ELSE IF conversation_context = "reports" THEN
                 <<"How to generate reports?", "What's included in reports?",
                 "How to schedule reports?">>
         ELSE <<"How to use the tool?", "Where can I find features?", "How to get started?">>
    ELSE IF mcp # NoMCP /\ mcp.user_profile.interaction_count = 0 THEN
            <<"How to get started?", "Where is the dashboard?", "How to analyze my website?">>
    ELSE <<"How to use the tool?", "Where can I find features?", "How to analyze my website?">>

\* get_context_suggestions from "Smart suggestions based on what user is
\* actually typing" on
KeywordSuggestions(user_words, intent, conversation_context, message_lower, mcp) ==
    IF AnyWord(<<"where", "find", "locate", "how to get to", "how to access">>, user_words)
    THEN Take(IF AnyWord(<<"dashboard", "home", "main">>, user_words) THEN
            <<"Where is the dashboard?", "How to access main page?", "Find home screen">>
              ELSE IF AnyWord(<<"report", "reports", "analysis">>, user_words)
              THEN NavReportSet
              ELSE IF AnyWord(<<"setting", "settings", "config", "option">>, user_words)
              THEN <<"Where are settings?", "How to access configuration?", "Find tool options">>
              ELSE
                      <<"Where is the dashboard?", "How to find reports?", "Where are settings?">>,
                      MaxSuggestions)
    ELSE IF AnyWord(<<"how to use", "how does", "how do i", "explain">>, user_words)
    THEN Take(IF AnyWord(<<"analysis", "analyze", "audit", "check">>, user_words)
              THEN
                      <<"How to use website analysis?", "How to run SEO audit?",
                      "How to analyze my site?">>
              ELSE IF AnyWord(<<"keyword", "keywords", "research">>, user_words)
              THEN
                      <<"How to use keyword research?", "How to find keywords?",
                      "How to analyze keywords?">>
              ELSE IF AnyWord(<<"competitor", "competition", "compare">>, user_words)
              THEN
                      <<"How to use competitor analysis?", "How to compare with competitors?",
                      "How to analyze competition?">>
              ELSE
                      <<"How to use website analysis?", "How does keyword research work?",
                      "How to run competitor analysis?">>, MaxSuggestions)
    ELSE IF AnyWord(<<"error", "issue", "problem", "not", "working", "broken", "fix", "help">>,
                    user_words)
    THEN Take(IF AnyWord(<<"login", "signin", "access", "password">>, user_words) THEN
            <<"Fix login issues", "Can't access my account", "Password reset problems">>
              ELSE IF AnyWord(<<"report", "generating", "loading", "analysis">>, user_words)
              THEN <<"Report not generating", "Analysis stuck at 0%", "Data not loading">>
              ELSE
                      <<"Fix this error", "Troubleshoot the issue", "Get technical help">>,
                      MaxSuggestions)
    ELSE IF AnyWord(<<"report", "reports", "export", "download", "pdf">>, user_words)
    THEN Take(IF AnyWord(<<"generate", "create", "make", "get">>, user_words)
              THEN <<"Generate new report", "Create custom report", "Get analysis report">>
              ELSE IF AnyWord(<<"schedule", "automatic", "auto">>, user_words)
              THEN
                      <<"Schedule automatic reports", "Set up recurring reports",
                      "Auto-generate reports">>
              ELSE
                      <<"Generate new report", "View previous reports", "Export report to PDF">>,
                      MaxSuggestions)
    ELSE IF AnyWord(<<"setting", "settings", "configure", "setup", "preference">>, user_words)
    THEN Take(IF AnyWord(<<"notification", "alert", "email">>, user_words)
              THEN
                      <<"Change notification settings", "Configure email alerts",
                      "Set up notifications">>
              ELSE IF AnyWord(<<"account", "profile", "user">>, user_words)
              THEN
                      <<"Update account settings", "Change profile information",
                      "Manage user account">>
              ELSE
                      <<"Change notification settings", "Update account information",
                      "Configure analysis preferences">>, MaxSuggestions)
    ELSE Take(IntentSuggestions(intent, conversation_context, message_lower, mcp),
              MaxSuggestions)

\* an urgent tone that is answered with the urgent set whatever the intent
tone_suggestions_any_intent(tone, intent) ==
    IF tone = "urgent" THEN UrgentSet
    ELSE IF tone = "frustrated" THEN EmpatheticSet
    ELSE << >>

\* get_context_suggestions, "Check emotional tone": the list returned there,
\* << >> when the function goes on
tone_suggestions(tone, intent) ==
    IF tone = "urgent"
    THEN IF intent = "errors" THEN UrgentSet ELSE << >>
    ELSE IF tone = "frustrated" THEN EmpatheticSet
    ELSE << >>

\* get_context_suggestions
get_context_suggestions(message, mcp) ==
    IF message = "" \/ Len(Strip(message)) < MinInputLen THEN << >>
    ELSE LET message_lower == Strip(Lower(message)) IN
         IF Len(message_lower) < MinInputLen THEN << >>
         ELSE LET user_words == Split(message_lower)
                  intent == detect_intent_from_text(message_lower, mcp)
                  conversation_context == IF mcp # NoMCP /\ mcp.entities.subject # None
                                          THEN mcp.entities.subject ELSE ""
                  tone == IF mcp # NoMCP THEN mcp.conversation_state.emotional_tone
                          ELSE None
                  early == tone_suggestions(tone, intent)
              IN IF early # << >> THEN early
                 ELSE KeywordSuggestions(user_words, intent, conversation_context,
                                         message_lower, mcp)

(***************************************************************************)
(* get_ai_response up to the call of the generator.                        *)
(* The result says whether the function has returned a text ("return") or  *)
(* is about to call call_groq_api ("generate"), with the tracker and the   *)
(* closing-question flag as the function leaves them.                      *)
(***************************************************************************)
get_ai_response(mcp0, flag, user_input0, image_data, timestamp) ==
    LET mcp == update_context(mcp0, "user", user_input0, timestamp)
        should_filter == should_filter_novarsis(mcp, user_input0)
        user_input == IF image_data THEN AttachImage(user_input0) ELSE user_input0
    IN IF flag /\ Lower(user_input) \in NoReplies
       THEN [outcome |-> "return", response |-> ContactBlock, mcp |-> mcp, flag |-> FALSE]
       ELSE IF flag /\ Lower(user_input) \in YesReplies
       THEN [outcome |-> "return", response |-> Acknowledgement, mcp |-> mcp, flag |-> FALSE]
       ELSE IF is_tool_specific_question(user_input)
       THEN [outcome |-> "return", response |-> get_tool_specific_response(user_input),
             mcp |-> mcp, flag |-> flag]
       ELSE IF should_filter /\ ~is_novarsis_related(user_input)
       THEN [outcome |-> "return", response |-> RedirectMessage, mcp |-> mcp, flag |-> flag]
       ELSE [outcome |-> "generate", response |-> None, mcp |-> mcp, flag |-> flag]

(***************************************************************************)
(* The event loop.  The handlers are coroutines ("async def"): a handler   *)
(* that has started keeps the loop until it returns or reaches an await    *)
(* expression.  The labels are the calls at which a handler waits:         *)
(* "sleep" (time.sleep) and "generate" (requests.post in call_groq_api).   *)
(***************************************************************************)
\* the generator call is awaited
AwaitPoints_generate == {"generate"}

\* the waiting calls of chat that are await expressions: none, both block the loop
AwaitPoints == {}

\* client c may take the next step of its handler
CanRun(c) ==
    \/ loop_owner = c
    \/ loop_owner = NoClient /\ pc[c] \in AwaitPoints \cup {"queued"}

\* the owner of the loop once c has reached label
OwnerAt(c, label) == IF label \in AwaitPoints \cup {"idle"} THEN NoClient ELSE c

(***************************************************************************)
(* Specification of the tracker driven call by call.                       *)
(***************************************************************************)
\* module level: fast_mcp = FastMCP(), session_state = {...}; no request yet
Init ==
    /\ fast_mcp = FastMCP
    /\ now = 0
    /\ last_call = [op |-> "init", message |-> None, result |-> None]
    /\ last_bot_message_ends_with_query_solved = FALSE
    /\ platform = None
    /\ pc = [c \in Clients |-> "idle"]
    /\ session_id = [c \in Clients |-> None]
    /\ request = [c \in Clients |-> NoRequest]
    /\ loop_owner = NoClient
    /\ delivered = << >>

TrackerInit == Init

RecordUser(texts, cap) ==
    \E m \in texts :
        /\ Len(fast_mcp.conversation_memory) < cap
        /\ fast_mcp' = update_context(fast_mcp, "user", m, now)
        /\ now' = now + 1
        /\ last_call' = [op |-> "update_context_user", message |-> m, result |-> None]
        /\ UNCHANGED chat_vars

RecordAssistant(texts, cap) ==
    \E m \in texts :
        /\ Len(fast_mcp.conversation_memory) < cap
        /\ fast_mcp' = update_context(fast_mcp, "assistant", m, now)
        /\ now' = now + 1
        /\ last_call' = [op |-> "update_context_assistant", message |-> m, result |-> None]
        /\ UNCHANGED chat_vars

ShouldFilter(texts) ==
    \E m \in texts :
        /\ last_call' = [op |-> "should_filter_novarsis", message |-> m,
                         result |-> should_filter_novarsis(fast_mcp, m)]
        /\ UNCHANGED <<fast_mcp, now>>
        /\ UNCHANGED chat_vars

ExtractIntent(texts) ==
    \E m \in texts :
        /\ last_call' = [op |-> "extract_intent", message |-> m, result |-> extract_intent(m)]
        /\ UNCHANGED <<fast_mcp, now>>
        /\ UNCHANGED chat_vars

TrackerNext ==
    \/ RecordUser(UserTexts, MaxMemory)
    \/ RecordAssistant(BotTexts, MaxMemory)
    \/ ShouldFilter(FilterTexts)

SpecTracker == TrackerInit /\ [][TrackerNext]_vars

IsNovarsisRelated(queries) ==
    \E q \in queries :
        /\ last_call' = [op |-> "is_novarsis_related", message |-> q,
                         result |-> is_novarsis_related(q)]
        /\ UNCHANGED <<fast_mcp, now>>
        /\ UNCHANGED chat_vars

ClassifierNext ==
    \/ RecordUser(ClassifyTexts, MaxClassified)
    \/ RecordAssistant(WindowBotTexts, MaxClassified)
    \/ ExtractIntent(ClassifyTexts)
    \/ IsNovarsisRelated(ScopeQueries)

SpecClassifier == TrackerInit /\ [][ClassifierNext]_vars

WindowNext ==
    \/ RecordUser(WindowUserTexts, MaxWindowMemory)
    \/ RecordAssistant(WindowBotTexts, MaxWindowMemory)

SpecWindow == TrackerInit /\ [][WindowNext]_vars

(***************************************************************************)
(* Specification of the suggestions: the tracker is driven by recorded     *)
(* turns, /api/typing-suggestions and the suggestions of /api/mobile/chat  *)
(* are asked for in every state, and the quick action buttons are chosen   *)
(* for a set of responses.                                                 *)
(***************************************************************************)
\* a handler that records the typed text as a user turn
typing_suggestions_recording(input, mcp) ==
    [suggestions |-> get_context_suggestions(input, mcp), status |-> "success",
     mcp |-> update_context(mcp, "user", input, 0)]

\* typing_suggestions: the suggestions returned and the tracker it leaves
typing_suggestions(input, mcp) ==
    [suggestions |-> get_context_suggestions(input, mcp), status |-> "success", mcp |-> mcp]

\* /api/typing-suggestions
TypingSuggestions(inputs) ==
    \E input \in inputs :
        LET r == typing_suggestions(input, fast_mcp) IN
        /\ last_call' = [op |-> "typing_suggestions", message |-> input,
                         result |-> r.suggestions]
        /\ fast_mcp' = r.mcp
        /\ UNCHANGED now
        /\ UNCHANGED chat_vars

\* mobile_chat, "suggestions": get_context_suggestions(request.message)[:3]
MobileSuggestions(inputs) ==
    \E input \in inputs :
        /\ last_call' = [op |-> "mobile_suggestions", message |-> input,
                         result |-> Take(get_context_suggestions(input, NoMCP),
                                         MaxSuggestions)]
        /\ UNCHANGED <<fast_mcp, now>>
        /\ UNCHANGED chat_vars

\* chat, "quick_actions", on each of its returns
QuickActions(texts) ==
    \E response \in texts, closing_reply \in {"no", "yes", None} :
        /\ last_call' = [op |-> "chat_quick_actions", message |-> response,
                         closing_reply |-> closing_reply,
                         result |-> chat_quick_actions(closing_reply, response)]
        /\ UNCHANGED <<fast_mcp, now>>
        /\ UNCHANGED chat_vars

SuggestNext ==
    \/ RecordUser(SuggestUserTexts, MaxSuggestMemory)
    \/ RecordAssistant(SuggestBotTexts, MaxSuggestMemory)
    \/ TypingSuggestions(SuggestInputs)
    \/ MobileSuggestions(MobileInputs)
    \/ QuickActions(QuickActionTexts)

SpecSuggest == TrackerInit /\ [][SuggestNext]_vars

(***************************************************************************)
(* /api/chat.                                                              *)
(***************************************************************************)
InFlight == {c \in Clients : pc[c] # "idle"}

\* a client sends a request to /api/chat with the session id of its conversation
Arrive(c) ==
    /\ pc[c] = "idle"
    /\ Len(delivered) + Cardinality(InFlight) < MaxRequests
    /\ \E s \in SessionIds : session_id' = [session_id EXCEPT ![c] = s]
    /\ pc' = [pc EXCEPT ![c] = "queued"]
    /\ UNCHANGED <<fast_mcp, now, last_call, last_bot_message_ends_with_query_solved,
                   platform, request, loop_owner, delivered>>

\* chat returns response to client c
Return(c, response, quick_actions) ==
    /\ delivered' = Append(delivered, [response |-> response, quick_actions |-> quick_actions])
    /\ pc' = [pc EXCEPT ![c] = "idle"]
    /\ session_id' = [session_id EXCEPT ![c] = None]
    /\ request' = [request EXCEPT ![c] = NoRequest]
    /\ loop_owner' = OwnerAt(c, "idle")

\* the session id db.create_session returns: a fresh uuid4
NewSession == "uuid4"

\* what the persistence calls of a handler do: the database is not connected
\* (db.is_connected() is false), every call succeeds, or one of them raises
PersistenceOutcomes == {"disconnected", "saved", "raised"}

\* chat, "Create or get session": the session ids the handler can hold after
\* the block; create_session is called for a session the database does not know
SessionsAfter(session, outcome) ==
    IF outcome = "disconnected" THEN {session} ELSE {session, NewSession}

\* the response of the server to a request whose handler raised
InternalServerError == "Internal Server Error"

\* the exception of a persistence call leaves the try statement
try_except_reraises(outcome) == IF outcome = "raised" THEN "raised" ELSE None

\* chat, "except Exception as e" after the persistence calls: the exception
\* that leaves the try statement; it is logged and chat goes on
try_except(outcome) == None

\* chat, "Update FAST MCP with bot response" and the flag update
Recorded(mcp, response, timestamp) ==
    /\ fast_mcp' = update_context(mcp, "assistant", response, timestamp)
    /\ now' = timestamp + 1
    /\ last_bot_message_ends_with_query_solved' = EndsWith(Strip(response), ClosingQuestion)

\* chat from "Update FAST MCP with bot response" to its return, the
\* persistence call left out
Answer(c, mcp, response, timestamp) ==
    /\ Recorded(mcp, response, timestamp)
    /\ Return(c, response, chat_quick_actions(None, response))

\* chat from "Update FAST MCP with bot response" to its return
RecordAndReturn(c, mcp, response, timestamp) ==
    \E outcome \in PersistenceOutcomes :
        /\ last_call' = [op |-> "save_message", role |-> "assistant", message |-> response,
                         image_data |-> FALSE, result |-> outcome]
        /\ IF try_except(outcome) = None
           THEN Answer(c, mcp, response, timestamp)
           ELSE /\ Recorded(mcp, response, timestamp)
                /\ Return(c, InternalServerError, << >>)

\* chat from the end of the persistence block to time.sleep, for the request
\* body r and the session id the handler holds: image handling, platform,
\* the shortcut for a reply to the closing question
Handle(c, r, session) ==
    LET message == IF r.image_data THEN AttachImage(r.message) ELSE r.message IN
    /\ platform' = IF r.platform = "mobile" THEN "mobile" ELSE platform
    /\ IF last_bot_message_ends_with_query_solved /\ Lower(message) \in NoReplies
       THEN /\ last_bot_message_ends_with_query_solved' = FALSE
            /\ Return(c, ContactBlock, chat_quick_actions("no", ContactBlock))
            /\ UNCHANGED <<fast_mcp, now>>
       ELSE IF last_bot_message_ends_with_query_solved /\ Lower(message) \in YesReplies
       THEN /\ last_bot_message_ends_with_query_solved' = FALSE
            /\ Return(c, Acknowledgement, chat_quick_actions("yes", Acknowledgement))
            /\ UNCHANGED <<fast_mcp, now>>
       ELSE /\ request' = [request EXCEPT
                              ![c] = [message |-> message, image_data |-> r.image_data]]
            /\ pc' = [pc EXCEPT ![c] = "sleep"]
            /\ loop_owner' = OwnerAt(c, "sleep")
            /\ session_id' = [session_id EXCEPT ![c] = session]
            /\ UNCHANGED <<fast_mcp, now, last_bot_message_ends_with_query_solved, delivered>>

\* chat from its start to time.sleep: the persistence block, then Handle
ChatReceive(c) ==
    /\ pc[c] = "queued"
    /\ CanRun(c)
    /\ \E r \in Requests, outcome \in PersistenceOutcomes :
           \E session \in SessionsAfter(session_id[c], outcome) :
               /\ last_call' = [op |-> "save_message", role |-> "user",
                                message |-> r.message, image_data |-> r.image_data,
                                result |-> outcome]
               /\ IF try_except(outcome) = None
                  THEN Handle(c, r, session)
                  ELSE /\ Return(c, InternalServerError, << >>)
                       /\ UNCHANGED <<fast_mcp, now, last_bot_message_ends_with_query_solved,
                                      platform>>

\* chat after time.sleep: the response of the greeting branch when the message
\* is a greeting and nothing more (intro), of get_ai_response (r) otherwise
answer_of(intro, introduction, r, timestamp) ==
    IF intro
    THEN introduction
    ELSE [outcome |-> r.outcome, response |-> r.response, mcp |-> r.mcp, flag |-> r.flag,
          timestamp |-> timestamp + 1]

\* chat after time.sleep: what the greeting branch and get_ai_response up to
\* the generator call give for the request of client c
chat_answer(c) ==
    LET message == request[c].message
        greeted == is_greeting(message)
    IN answer_of(greeted /\ ~(Len(remaining_message(message)) > 2),
                 [outcome |-> "return", response |-> get_intro_response(platform),
                  mcp |-> fast_mcp, flag |-> last_bot_message_ends_with_query_solved,
                  timestamp |-> now],
                 get_ai_response(fast_mcp, last_bot_message_ends_with_query_solved,
                                 IF greeted THEN enhanced_input(message) ELSE message,
                                 request[c].image_data, now),
                 now)

\* chat after time.sleep, given the answer a: the rest of chat when no
\* generator call is made, the state at the generator call otherwise
Responded(c, a) ==
    IF a.outcome = "return"
    THEN RecordAndReturn(c, a.mcp, a.response, a.timestamp)
    ELSE /\ fast_mcp' = a.mcp
         /\ now' = a.timestamp
         /\ last_bot_message_ends_with_query_solved' = a.flag
         /\ pc' = [pc EXCEPT ![c] = "generate"]
         /\ loop_owner' = OwnerAt(c, "generate")
         /\ UNCHANGED <<last_call, session_id, request, delivered>>

\* chat after time.sleep: the greeting branch and get_ai_response up to the
\* generator call; when no generator call is made, the rest of chat as well
ChatRespond(c) ==
    /\ pc[c] = "sleep"
    /\ CanRun(c)
    /\ Responded(c, chat_answer(c))
    /\ UNCHANGED platform

\* call_groq_api has answered: the rest of get_ai_response and of chat
ChatGenerate(c) ==
    /\ pc[c] = "generate"
    /\ CanRun(c)
    /\ \E response \in GeneratorReplies : RecordAndReturn(c, fast_mcp, response, now)
    /\ UNCHANGED platform

Next ==
    \/ \E c \in Clients : Arrive(c)
    \/ \E c \in Clients : ChatReceive(c)
    \/ \E c \in Clients : ChatRespond(c)
    \/ \E c \in Clients : ChatGenerate(c)

Spec == Init /\ [][Next]_vars

(***************************************************************************)
(* Properties of the context window and the memory.                        *)
(***************************************************************************)
Memory == fast_mcp.conversation_memory

LastEntry == Memory[Len(Memory)]

Min(a, b) == IF a < b THEN a ELSE b

LastEntries(memory, k) == SubSeq(memory, Len(memory) - k + 1, Len(memory))

C1_WindowIsTail ==
    /\ Len(fast_mcp.context_window) <= 10
    /\ fast_mcp.context_window = LastEntries(Memory, Min(10, Len(Memory)))

C1_MemoryAppendOnly ==
    /\ Len(fast_mcp'.conversation_memory) = Len(Memory) + 1
    /\ SubSeq(fast_mcp'.conversation_memory, 1, Len(Memory)) = Memory

\* C1: after any sequence of update_context calls the context window holds at
\* most 10 turns and is exactly the last min(10, n) turns of the full memory,
\* in the same order; each call appends exactly one turn to the full memory
\* and changes none of the turns already there.
C1_WindowBounded == [](C1_WindowIsTail) /\ [][C1_MemoryAppendOnly]_vars

\* two turns have been evicted from a full window
C1_Witness ==
    /\ Len(Memory) = 12
    /\ Len(fast_mcp.context_window) = 10
    /\ fast_mcp.context_window[1] = Memory[3]

(***************************************************************************)
(* Properties of the filter decision.                                      *)
(***************************************************************************)
\* the memory ends with an assistant turn ending in "?" and the user reply "no"
C4_NoAfterQuestion ==
    /\ Len(Memory) >= 2
    /\ LastEntry.role = "user"
    /\ LastEntry.content = "no"
    /\ Memory[Len(Memory) - 1].role = "assistant"
    /\ EndsWith(Memory[Len(Memory) - 1].content, "?")

\* C4: once an assistant turn whose text ends in "?" has been recorded, the
\* user reply "no" that follows it is stored with the intent denial and
\* should_filter_novarsis("no") is false, whatever turns came before.
C4_FilterSuppressed ==
    C4_NoAfterQuestion =>
        /\ LastEntry.intent = "denial"
        /\ should_filter_novarsis(fast_mcp, "no") = FALSE
        /\ (last_call.op = "should_filter_novarsis" /\ last_call.message = "no"
               => last_call.result = FALSE)

\* the filter decision was taken for "no" after an earlier turn, the question and the reply
C4_Witness ==
    /\ C4_NoAfterQuestion
    /\ Len(Memory) = 3
    /\ last_call = [op |-> "should_filter_novarsis", message |-> "no", result |-> FALSE]

C5_Suppressed(message) ==
    \/ fast_mcp.conversation_state.expecting_response
          \in {"help_confirmation", "answer", "feedback_on_solution"}
    \/ extract_intent(message) \in {"confirmation", "denial", "elaboration_request"}

\* C5: a call of should_filter_novarsis(text) returns false exactly when
\* expecting_response is help_confirmation, answer or feedback_on_solution, or
\* the intent of text is confirmation, denial or elaboration_request, and
\* true otherwise; the call changes no field of the tracker.
C5_FilterDecision ==
    [][last_call'.op = "should_filter_novarsis" =>
          /\ last_call'.result = ~C5_Suppressed(last_call'.message)
          /\ UNCHANGED fast_mcp]_vars

\* the filter applies to a help request made while nothing is expected
C5_Witness ==
    /\ last_call = [op |-> "should_filter_novarsis",
                    message |-> "please assist me", result |-> TRUE]
    /\ Len(Memory) = 2

(***************************************************************************)
(* Properties of the emotional tone.                                       *)
(***************************************************************************)
Tones == {"neutral", "urgent", "frustrated", "polite"}

C6_ToneStep ==
    LET tone == fast_mcp.conversation_state.emotional_tone
        tone_after == fast_mcp'.conversation_state.emotional_tone
        lower == Lower(last_call'.message)
    IN /\ (tone # "neutral" => tone_after # "neutral")
       /\ (last_call'.op = "update_context_assistant" => tone_after = tone)
       /\ (last_call'.op = "update_context_user" =>
              tone_after =
                 IF AnyIn(<<"urgent", "asap", "immediately", "quickly">>, lower) THEN "urgent"
                 ELSE IF AnyIn(<<"frustrated", "annoyed", "angry", "upset">>, lower) THEN "frustrated"
                 ELSE IF AnyIn(<<"please", "thanks", "appreciate">>, lower) THEN "polite"
                 ELSE tone)

\* C6: the emotional tone is always neutral, urgent, frustrated or polite; a
\* user turn without urgency, distress or politeness word leaves it unchanged,
\* an assistant turn never changes it, and once it is not neutral no turn
\* makes it neutral again; in one user turn urgency words win over distress
\* words, which win over politeness words.
C6_ToneSticky ==
    [](fast_mcp.conversation_state.emotional_tone \in Tones) /\ [][C6_ToneStep]_vars

\* an urgent tone has survived a user turn without any tone word
C6_Witness ==
    /\ fast_mcp.conversation_state.emotional_tone = "urgent"
    /\ last_call.op = "update_context_user"
    /\ last_call.message = "pizza"

(***************************************************************************)
(* Properties of the expectation set by an assistant turn.                 *)
(***************************************************************************)
C7_HelpPhrase(message) ==
    Contains(Lower(message), "need more help") \/ Contains(Lower(message), "need help")

C7_SolutionPhrase(message) ==
    Contains(Lower(message), "follow these") \/ Contains(Lower(message), "try these steps")

C7_StepFor(asks(_)) ==
    last_call'.op = "update_context_assistant" =>
        LET m == last_call'.message IN
        /\ fast_mcp'.conversation_state.last_question =
              IF asks(m) THEN m ELSE fast_mcp.conversation_state.last_question
        /\ fast_mcp'.conversation_state.expecting_response =
              IF C7_SolutionPhrase(m) THEN "feedback_on_solution"
              ELSE IF C7_HelpPhrase(m) THEN "help_confirmation"
              ELSE IF asks(m) THEN "answer"
              ELSE fast_mcp.conversation_state.expecting_response

C7_Trailing(message) == EndsWith(message, "?")
C7_Anywhere(message) == Contains(message, "?")

\* C7 as stated: an assistant turn sets last_question to its text, and
\* expecting_response to answer, when and only when the text ends with a
\* question mark; a hand-off phrase overrides the expectation.
C7_TrailingQuestionOnly == [][C7_StepFor(C7_Trailing)]_vars

\* C7, amended: an assistant turn sets last_question to its text, and
\* expecting_response to answer, when and only when the text contains a
\* question mark at any position; a text without question mark leaves
\* last_question unchanged and, without hand-off phrase, expecting_response
\* too.  A hand-off phrase overrides the expectation: "need more help" (or
\* "need help") gives help_confirmation, "follow these" (or "try these
\* steps") gives feedback_on_solution, which wins when both are present.
C7_AnyQuestionMark == [][C7_StepFor(C7_Anywhere)]_vars

\* a question mark in the middle of the assistant text has set the expectation
C7_Witness ==
    /\ last_call.op = "update_context_assistant"
    /\ last_call.message = "Did that work? Let me know."
    /\ fast_mcp.conversation_state.last_question = "Did that work? Let me know."
    /\ fast_mcp.conversation_state.expecting_response = "answer"

\* both hand-off phrases in one assistant text
C7_WitnessBoth ==
    /\ last_call.op = "update_context_assistant"
    /\ last_call.message = "Follow these steps. Need more help?"
    /\ fast_mcp.conversation_state.expecting_response = "feedback_on_solution"

(***************************************************************************)
(* Properties of the intent classifier.                                    *)
(***************************************************************************)
C8_TagOrder ==
    <<"question", "confirmation", "denial", "help_request", "problem_report",
      "gratitude", "elaboration_request">>

C8_WordClass ==
    <<QuestionWords, ConfirmationWords, DenialWords, HelpWords, ProblemWords,
      GratitudeWords, ElaborationWords>>

\* the earliest tag, in the fixed order, one of whose words occurs in the
\* lower-cased text; statement when there is none
C8_FirstMatch(text) ==
    LET hits == {k \in 1..Len(C8_TagOrder) : AnyIn(C8_WordClass[k], Lower(text))} IN
    IF hits = {} THEN "statement"
    ELSE C8_TagOrder[CHOOSE k \in hits : \A j \in hits : k <= j]

\* C8: extract_intent returns, for every text and in every tracker state,
\* exactly one of the 8 intent tags: the first tag in the order question,
\* confirmation, denial, help_request, problem_report, gratitude,
\* elaboration_request whose word class occurs in the lower-cased text, and
\* statement when none does.  Every user turn in memory carries that tag
\* of its text and every assistant turn carries none.
C8_IntentCascade ==
    /\ \A i \in 1..Len(Memory) :
          LET e == Memory[i] IN
          IF e.role = "user"
          THEN e.intent \in IntentTags /\ e.intent = C8_FirstMatch(e.content)
          ELSE e.intent = None
    /\ last_call.op = "extract_intent" =>
          /\ last_call.result \in IntentTags
          /\ last_call.result = C8_FirstMatch(last_call.message)

\* a text with affirmative and negation words, classified after a recorded turn
C8_Witness ==
    /\ last_call = [op |-> "extract_intent", message |-> "yes but not now",
                    result |-> "confirmation"]
    /\ Len(Memory) = 1
    /\ Memory[1] = [role |-> "user", content |-> "NO", timestamp |-> 0, intent |-> "denial"]

(***************************************************************************)
(* Properties of the scope filter.                                         *)
(***************************************************************************)
C9_HasCasual(q) == \E k \in 1..Len(CAUSAL_ALLOWED) : Contains(Lower(q), CAUSAL_ALLOWED[k])
C9_HasUnrelated(q) == \E k \in 1..Len(UNRELATED_TOPICS) : Contains(Lower(q), UNRELATED_TOPICS[k])
C9_HasKeyword(q) == \E k \in 1..Len(NOVARSIS_KEYWORDS) : Contains(Lower(q), NOVARSIS_KEYWORDS[k])

\* C9: is_novarsis_related answers in three tiers: a text with a casual
\* phrase is in scope even when it names an unrelated topic; otherwise a
\* text naming an unrelated topic is out of scope even when it contains a
\* domain keyword; otherwise it is in scope exactly when it contains a
\* domain keyword.
C9_ThreeTiers ==
    last_call.op = "is_novarsis_related" =>
        LET q == last_call.message IN
        /\ C9_HasCasual(q) => last_call.result = TRUE
        /\ ~C9_HasCasual(q) /\ C9_HasUnrelated(q) => last_call.result = FALSE
        /\ ~C9_HasCasual(q) /\ ~C9_HasUnrelated(q) => last_call.result = C9_HasKeyword(q)

\* an unrelated topic has pre-empted a domain keyword
C9_Witness ==
    last_call = [op |-> "is_novarsis_related", message |-> "movie about seo", result |-> FALSE]

\* a casual phrase has pre-empted an unrelated topic
C9_WitnessCasual ==
    last_call = [op |-> "is_novarsis_related", message |-> "thanks for the pizza", result |-> TRUE]

(***************************************************************************)
(* Properties of /api/chat.                                                *)
(***************************************************************************)
\* get_ai_response, "Get FAST MCP instance": the tracker a request of session s
\* works on; the session id takes no part in the lookup
TrackerOf(s) == fast_mcp

\* what a call for session s observes of the tracker
Observed(s) ==
    [emotional_tone |-> TrackerOf(s).conversation_state.emotional_tone,
     entities |-> TrackerOf(s).entities,
     expecting_response |-> TrackerOf(s).conversation_state.expecting_response,
     interaction_count |-> TrackerOf(s).user_profile.interaction_count]

\* C2: a step of a request of one session leaves unchanged the emotional tone,
\* the entities, expecting_response and the interaction count that a call for
\* any other session observes.
C2_SessionOwned ==
    [][\A c \in Clients :
          pc'[c] # pc[c] /\ session_id[c] # None =>
              \A s \in SessionIds \ {session_id[c]} : Observed(s)' = Observed(s)]_vars

\* client c has recorded the user turn of its request and not yet the reply
BetweenTurns(c) == pc[c] = "generate"

\* C3: while a request of a session is between the recording of its user turn
\* and the recording of its reply, no step of another request of that session
\* records a turn.
C3_TurnsSerialized ==
    [][\A c \in Clients : \A d \in Clients \ {c} :
          BetweenTurns(c) /\ session_id[d] = session_id[c] /\ pc'[d] # pc[d] =>
              Memory' = Memory]_vars

\* a request is between its two recordings while another request of the same
\* session waits for the event loop
C3_Witness ==
    \E c \in Clients : \E d \in Clients \ {c} :
        BetweenTurns(c) /\ pc[d] = "queued" /\ session_id[d] = session_id[c]

\* no request is inside the handler
Quiescent == \A c \in Clients : pc[c] \in {"idle", "queued"}

\* C10: after n handled requests the memory holds n user turns and n assistant
\* turns, alternating, and the assistant turn of the i-th request is the reply
\* that request returned.
C10_TurnsRecorded ==
    Quiescent =>
        /\ Len(Memory) = 2 * Len(delivered)
        /\ \A i \in 1..Len(delivered) :
              /\ 2 * i <= Len(Memory)
              /\ Memory[2 * i - 1].role = "user"
              /\ Memory[2 * i].role = "assistant"
              /\ Memory[2 * i].content = delivered[i].response

(***************************************************************************)
(* Properties of the suggestions                                           *)
(***************************************************************************)
\* the calls that return suggestions for a typed text
SuggestionOps == {"typing_suggestions", "mobile_suggestions"}

\* C11: get_context_suggestions returns the empty list whenever the input,
\* stripped of surrounding whitespace, has fewer than 3 characters, whatever
\* the tracker holds, the urgent and the frustrated tone included.
C11_ShortInputEmpty ==
    (last_call.op \in SuggestionOps /\ Len(Strip(last_call.message)) < 3)
        => last_call.result = << >>

\* a two-character input is answered with nothing while the user is frustrated
C11_Witness ==
    /\ last_call.op = "typing_suggestions"
    /\ last_call.message = "ok"
    /\ fast_mcp.conversation_state.emotional_tone \in {"urgent", "frustrated"}
    /\ last_call.result = << >>

\* C12: every list of suggestions and every list of quick action buttons
\* handed to a caller has at most 3 items, whichever branch produced it.
C12_AtMostThree ==
    last_call.op \in SuggestionOps \cup {"chat_quick_actions"} => Len(last_call.result) <= 3

\* a response that names support, dashboard, report and analysis, for which
\* four buttons are collected, is returned with three
C12_Witness ==
    /\ last_call.op = "chat_quick_actions"
    /\ last_call.closing_reply = None
    /\ \A w \in {"support", "dashboard", "report", "analysis"} :
           Contains(Lower(last_call.message), w)
    /\ Len(last_call.result) = 3

\* the macro-intent get_context_suggestions derives for the text of the last call
MacroIntent == detect_intent_from_text(Strip(Lower(last_call.message)), fast_mcp)

\* the text of the last call has at least 3 characters once stripped
LongEnough == Len(Strip(last_call.message)) >= 3

\* C13: for an input of stripped length >= 3, an urgent tone with an
\* error-related macro-intent returns the urgent set; otherwise a frustrated
\* tone returns the empathetic set whatever the text contains; only otherwise
\* do the keyword groups and the fallbacks decide, and they never return
\* either of the two tone sets.
C13_TonePrecedence ==
    (last_call.op = "typing_suggestions" /\ LongEnough) =>
        LET tone == fast_mcp.conversation_state.emotional_tone
            message_lower == Strip(Lower(last_call.message))
        IN IF tone = "urgent" /\ MacroIntent = "errors" THEN last_call.result = UrgentSet
           ELSE IF tone = "frustrated" THEN last_call.result = EmpatheticSet
           ELSE /\ last_call.result \notin {UrgentSet, EmpatheticSet}
                /\ last_call.result =
                       KeywordSuggestions(Split(message_lower), MacroIntent,
                                          IF fast_mcp.entities.subject # None
                                          THEN fast_mcp.entities.subject ELSE "",
                                          message_lower, fast_mcp)

\* an urgent user who types about an error is offered the urgent set
C13_Witness ==
    /\ last_call.op = "typing_suggestions"
    /\ fast_mcp.conversation_state.emotional_tone = "urgent"
    /\ MacroIntent = "errors"
    /\ last_call.result = UrgentSet

\* the sets get_context_suggestions has for questions about where things are
NavigationSets ==
    {NavReportSet,
     <<"Where is the dashboard?", "How to access main page?", "Find home screen">>,
     <<"Where are settings?", "How to access configuration?", "Find tool options">>,
     <<"Where is the dashboard?", "How to find reports?", "Where are settings?">>,
     <<"Where is the analysis tool?", "How to find reports?", "Where are settings?">>,
     <<"How to generate new report?", "Where to find previous reports?",
       "How to export reports?">>,
     <<"How to navigate the tool?", "Where can I find features?",
       "How to access different sections?">>}

\* C14 as stated: /api/typing-suggestions answers "where is the report" with
\* a navigation set of exactly 3 items in every reachable state.
C14_NavigationAlways ==
    (last_call.op = "typing_suggestions" /\ last_call.message = "where is the report")
        => (Len(last_call.result) = 3 /\ last_call.result \in NavigationSets)

\* C14, amended: /api/typing-suggestions answers "where is the report" with
\* exactly 3 items in every reachable state: the set about where the reports
\* are, unless the tone is frustrated, when it is the empathetic set.
C14_NavigationUnlessFrustrated ==
    (last_call.op = "typing_suggestions" /\ last_call.message = "where is the report")
        => /\ Len(last_call.result) = 3
           /\ last_call.result = IF fast_mcp.conversation_state.emotional_tone = "frustrated"
                                 THEN EmpatheticSet ELSE NavReportSet

\* a frustrated user who types "where is the report" is offered the
\* empathetic set
C14_Witness ==
    /\ last_call.op = "typing_suggestions"
    /\ last_call.message = "where is the report"
    /\ fast_mcp.conversation_state.emotional_tone = "frustrated"
    /\ last_call.result = EmpatheticSet

\* C15: a call of /api/typing-suggestions changes no field of the tracker,
\* and a call that follows another one with the same text, no turn having
\* been recorded in between, returns the same list.
C15_ReadOnly ==
    [][last_call'.op = "typing_suggestions" =>
          /\ fast_mcp' = fast_mcp
          /\ (last_call.op = "typing_suggestions" /\ last_call'.message = last_call.message)
                 => last_call'.result = last_call.result]_vars

\* suggestions have been asked for after turns were recorded, and the tracker
\* still holds those turns
C15_Witness ==
    /\ last_call.op = "typing_suggestions"
    /\ Len(last_call.result) = 3
    /\ Len(fast_mcp.conversation_memory) = 2
    /\ fast_mcp.user_profile.interaction_count = 1

(***************************************************************************)
(* get_ai_response from the generator call to its return, pass by pass.    *)
(***************************************************************************)
\* results of requests.post with the user input of their turn
SanitizeInputs ==
    {<<Generated("Our team will review this. Have I resolved your query?"), "hi">>,
     <<Generated("Our team will review this. have I resolved your query?"), "hi">>,
     <<Generated("Enterprise pricing is custom. Have I resolved your query?"), "hi">>,
     <<Generated("Open the Reports tab. Have I resolved your query?"), "where is the report">>,
     <<Generated("I will check MySite.com for you."), "check MySite.com">>,
     <<Generated("I will check mysite . Com and Mysite.COM for you"),
       "check https://www.mysite.com please">>,
     <<Generated("We will write to joe123@gmail.com today."), "my email is joe123@gmail.com">>,
     <<Generated("We will write to ann@site.org today."), "ann@site.org is mine">>,
     <<Generated("We will write to you."), "my email is joe+ab@gmail.com">>,
     <<Generated("Free Plan: 5 scans\nPro Plan: 50 scans\nFree Plan: 5 scans"), "hi">>,
     <<Generated("Write to support@support@novarsistech.com now."), "hi">>,
     <<Generated("Write to support@novarsistech.com now."), "hi">>,
     <<Generated("Write to support@support novarsistech.com"), "hi">>,
     <<Generated("Error: model is overloaded"), "hi">>,
     <<Generated(""), "hi">>}
    \cup {<<r, "hi">> : r \in GroqFailures}

Done == Len(Passes) + 1

\* get_ai_response has reached call_groq_api, requests.post is about to
\* return or raise
SanitizeInit ==
    /\ \E input \in SanitizeInputs :
          last_call = [op |-> "requests.post", response |-> input[1], message |-> input[2],
                       generated |-> None, result |-> None, before |-> None, pass |-> 0,
                       applications |-> 0, first |-> None, raised |-> FALSE]
    /\ fast_mcp = FastMCP
    /\ now = 0
    /\ last_bot_message_ends_with_query_solved = FALSE
    /\ platform = None
    /\ pc = [c \in Clients |-> "idle"]
    /\ session_id = [c \in Clients |-> None]
    /\ request = [c \in Clients |-> NoRequest]
    /\ loop_owner = NoClient
    /\ delivered = << >>

\* last_call once call_groq_api has returned response_text: get_ai_response
\* returns the fixed text for an API error, and enters the try block otherwise
AfterGroq(response_text) ==
    IF is_api_error(response_text)
    THEN [last_call EXCEPT !.op = "call_groq_api", !.generated = response_text,
                           !.result = ServiceFallback, !.pass = Done]
    ELSE [last_call EXCEPT !.op = "call_groq_api", !.generated = response_text,
                           !.result = response_text, !.pass = 1]

\* the rest of call_groq_api and the error check of get_ai_response
CallGroq ==
    /\ last_call.op = "requests.post"
    /\ last_call' = AfterGroq(call_groq_api(last_call.response))
    /\ UNCHANGED <<fast_mcp, now>>
    /\ UNCHANGED chat_vars

\* last_call after a pass that has returned r, the last of the passes or not
AfterPass(r, last) ==
    IF r.raised
    THEN [last_call EXCEPT !.op = "sanitize", !.result = TemporaryIssue,
                           !.before = last_call.result,
                           !.pass = Done, !.raised = TRUE, !.applications = @ + 1]
    ELSE [last_call EXCEPT !.op = "sanitize", !.result = Str(r.text),
                           !.before = last_call.result,
                           !.pass = @ + 1,
                           !.applications = IF last THEN @ + 1 ELSE @,
                           !.first = IF last /\ last_call.applications = 0
                                     THEN Str(r.text) ELSE @]

\* the next pass of the code on response_text; re.error ends the try block
\* and the except handler returns its text
SanitizePass ==
    /\ last_call.op \in {"call_groq_api", "sanitize"}
    /\ last_call.pass < Done
    /\ last_call' = AfterPass(Pass(Passes[last_call.pass], Chars(last_call.result),
                                   Chars(last_call.message)),
                              last_call.pass = Len(Passes))
    /\ UNCHANGED <<fast_mcp, now>>
    /\ UNCHANGED chat_vars

\* the text returned is given to the sanitization once more, with the same
\* user input
SanitizeAgain ==
    /\ last_call.op = "sanitize"
    /\ last_call.pass = Done
    /\ ~last_call.raised
    /\ last_call.applications = 1
    /\ last_call' = [last_call EXCEPT !.op = "call_groq_api", !.pass = 1]
    /\ UNCHANGED <<fast_mcp, now>>
    /\ UNCHANGED chat_vars

SanitizeNext == CallGroq \/ SanitizePass \/ SanitizeAgain

SpecSanitize == SanitizeInit /\ [][SanitizeNext]_vars

\* get_ai_response has returned last_call.result for the generator call
Returned ==
    /\ last_call.pass = Done
    /\ last_call.applications <= 1

\* the sanitization has returned, n times so far
Sanitized(n) ==
    /\ last_call.op = "sanitize"
    /\ last_call.pass = Done
    /\ last_call.applications = n


(***************************************************************************)
(* Properties of the generator call and of the sanitization                *)
(***************************************************************************)
\* C16: whenever the generator call has failed (a status other than 200, no
\* connection, a timeout), the text get_ai_response returns is the fixed
\* message that names the support address, not a text made from the failure.
C16_FailureGivesFallback ==
    Returned /\ last_call.response \in GroqFailures =>
        last_call.result = ServiceFallback


\* C17: no pass ends the sanitization: after each pass the sanitization goes
\* on with a text made from the generator output, and what it returns is never
\* the text of the except handler.
C17_NoPassFails ==
    last_call.op = "sanitize" =>
        /\ ~last_call.raised
        /\ last_call.result # TemporaryIssue


\* C18: the sanitization applied to its own output, with the same user
\* input, returns that output unchanged.
C18_Idempotent ==
    Sanitized(2) => last_call.result = last_call.first


\* the email address and the domains written in user_input
UserLiterals(user_input) ==
    LET user_email == user_email_of(user_input)
        domains == user_domains(user_input)
    IN {domains[i] : i \in DOMAIN domains} \cup (IF Len(user_email) > 0 THEN {user_email} ELSE {})

\* t without its blanks, in lower case
Squashed(t) == to_lower(SelectSeq(t, LAMBDA ch : ch # " "))

\* the literal is in the text when letter case and blanks are ignored
Appears(literal, t) == find(Squashed(t), Squashed(literal), 1) > 0

\* whether each literal that appears in the text stands there as written
LiteralsAsWritten(literals, t) ==
    \A literal \in literals : Appears(literal, t) => find(t, literal, 1) > 0

HandOffPhrases ==
    {"please contact us", "contact us at", "reach out to us",
     "our team will", "get back to you", "review your", "working on your",
     "expert will reach out", "team has been notified", "will contact you"}

\* the text contains one of them, in any letter case
HasHandOff(t) == \E w \in HandOffPhrases : find(to_lower(t), Chars(w), 1) > 0

\* C20: a text the sanitization returns does not contain the closing question
\* together with hand-off language.
C20_QuestionOrHandOff ==
    Sanitized(1) /\ ~last_call.raised =>
        ~(/\ contains(Chars(last_call.result), ClosingQuestion)
          /\ HasHandOff(Chars(last_call.result)))


\* the places of the text where a plan header w stands, in any letter case
PlanHeaders(t, w) == finditer(Word(w, TRUE), t)

\* C21: of the "Free Plan" blocks of a generator output the returned text has
\* the first only: "Free Plan" stands in it once at most.
C21_OneFreePlan ==
    Sanitized(1) /\ ~last_call.raised =>
        Len(PlanHeaders(Chars(last_call.result), "free plan")) <= 1


\* C22: no text the sanitization returns contains "support@support@".
C22_NoDuplicateSupport ==
    last_call.op = "sanitize" /\ last_call.pass = Done =>
        ~contains(to_lower(Chars(last_call.result)), "support@support@")


\* the passes that put a blank between a run of digits and a run of letters
BoundaryPasses == {"space_alphanumerics", "fix_common_spacing_issues"}

\* the email addresses of a text up to the last dot of the host: user name,
\* "@" and host as email_pattern reads them
EmailHeads(t) ==
    LET m == finditer(<<Rep(<<Ch(Letters \cup Digits \cup {"%", "+", "-", ".", "_"})>>, 1, Inf)>>
                      \o Word("@", FALSE)
                      \o <<Rep(<<Ch(Letters \cup Digits \cup {"-", "."})>>, 1, Inf)>>, t)
    IN {SubSeq(t, m[i].start, m[i].end - 1) : i \in DOMAIN m}

\* whether each of the texts stands in t
AllIn(texts, t) == \A w \in texts : find(t, w, 1) > 0

\* the pass that has just returned
LastPass == Passes[last_call.pass - 1]

\* C26: a pass that puts a blank between digits and letters leaves every
\* email address of its input as it was, and no placeholder of the protection
\* is left in the text the sanitization returns.
C26_EmailsProtected ==
    /\ (/\ last_call.op = "sanitize"
        /\ ~last_call.raised
        /\ LastPass \in BoundaryPasses)
        => AllIn(EmailHeads(Chars(last_call.before)), Chars(last_call.result))
    /\ last_call.op = "sanitize" /\ last_call.pass = Done
        => ~contains(Chars(last_call.result), "__EMAIL_")

\* the words that open the keyword groups of get_context_suggestions, one
\* list per group
KeywordGroups ==
    <<<<"where", "find", "locate", "how to get to", "how to access">>,
      <<"how to use", "how does", "how do i", "explain">>,
      <<"error", "issue", "problem", "not", "working", "broken", "fix", "help">>,
      <<"report", "reports", "export", "download", "pdf">>,
      <<"setting", "settings", "configure", "setup", "preference">>>>

\* the text of the last call matches no keyword group and the tone returns no
\* set: get_context_suggestions reaches its intent fallback
IntentFallback ==
    /\ last_call.op = "typing_suggestions"
    /\ LongEnough
    /\ tone_suggestions(fast_mcp.conversation_state.emotional_tone, MacroIntent) = << >>
    /\ \A g \in 1..Len(KeywordGroups) :
           ~AnyWord(KeywordGroups[g], Split(Strip(Lower(last_call.message))))

\* the report-specific sets of the intent fallback
ReportSets ==
    [navigation |-> <<"How to generate new report?", "Where to find previous reports?",
                      "How to export reports?">>,
     question |-> <<"How to generate reports?", "What's included in reports?",
                    "How to schedule reports?">>]

\* C28: in the intent fallback, with the macro-intent navigation or question
\* and the tracked subject the report topic, the report-specific set of that
\* intent is returned.
C28_SubjectSelectsSet ==
    (IntentFallback /\ fast_mcp.entities.subject = "report"
                    /\ MacroIntent \in {"navigation", "question"}) =>
        last_call.result = ReportSets[MacroIntent]

\* the domain nouns of the entity scan, in scan order
DomainNouns == <<"dashboard", "report", "settings", "analysis">>

\* what analyze_user_message looks for in the lower-cased text, in scan order;
\* a hit of SubjectKeys[k] stores DomainNouns[k]
SubjectKeys == <<"dashboard", "report", "setting", "analysis">>

\* the positions in scan order of the words of keys that occur in message
Hits(keys, message) == {k \in 1..Len(keys) : Contains(Lower(message), keys[k])}

\* the subject after a user turn when the last hit in scan order is stored
LastHitWins(keys, subject, message) ==
    LET hits == Hits(keys, message)
    IN IF hits = {} THEN subject
       ELSE DomainNouns[CHOOSE k \in hits : \A j \in hits : j <= k]

\* every recorded turn leaves the subject LastHitWins gives for the words keys
SubjectScan(keys) ==
    /\ last_call'.op = "update_context_user" =>
           fast_mcp'.entities.subject =
               LastHitWins(keys, fast_mcp.entities.subject, last_call'.message)
    /\ last_call'.op = "update_context_assistant" =>
           fast_mcp'.entities.subject = fast_mcp.entities.subject

\* C24 as stated: after a user turn that names one or more of dashboard,
\* report, settings, analysis the subject is the last of them in scan order; a
\* user turn that names none, and every assistant turn, leaves the subject.
C24_LastNounWins == [][SubjectScan(DomainNouns)]_vars

\* C24: after a user turn whose lower-cased text contains one or more of
\* dashboard, report, setting, analysis the subject is the noun of the last of
\* them in scan order (settings for setting); a user turn containing none,
\* and every assistant turn, leaves the subject.
C24_LastHitWins == [][SubjectScan(SubjectKeys)]_vars

\* a user turn with two of the words has been recorded and the later one in
\* scan order is the subject
C24_Witness ==
    /\ last_call.op = "update_context_user"
    /\ Cardinality(Hits(SubjectKeys, last_call.message)) >= 2
    /\ fast_mcp.entities.subject = LastHitWins(SubjectKeys, None, last_call.message)

\* the expectation the tracker holds
Expecting == fast_mcp.conversation_state.expecting_response

\* the step has delivered a reply to a client of /api/chat
Delivers == Len(delivered') = Len(delivered) + 1

\* C29: once an assistant turn has set expecting_response, no later turn sets
\* it back to none; from then on should_filter_novarsis is false for every
\* message and chat never returns the out-of-scope redirect again.  The
\* redirect and the greetings contain a question mark themselves.
C29_ExpectationStays ==
    [][/\ Expecting # None =>
              /\ Expecting' \in {"answer", "help_confirmation", "feedback_on_solution"}
              /\ \A r \in Requests : ~should_filter_novarsis(fast_mcp', r.message)
              /\ Delivers => delivered'[Len(delivered')].response # RedirectMessage
       /\ \A text \in {RedirectMessage, IntroMobile, IntroWeb} :
              ExpectingAfter(None, text) = "answer"]_vars

\* with an answer expected, "pizza" has been taken as a user turn and
\* answered by the generator instead of the redirect
C29_Witness ==
    /\ Len(delivered) = 2
    /\ delivered[2].response \in GeneratorReplies
    /\ Expecting # None
    /\ \E i \in 2..Len(Memory) :
           /\ Memory[i].role = "user"
           /\ Memory[i].content = "pizza"

\* the tail of chat for the answer a, the persistence call left out
Answered(c, a) == Answer(c, a.mcp, a.response, a.timestamp)

\* the step of the handler of client c is the step chat takes with the
\* persistence calls left out, for the request body saved and some session id
WithoutPersistence(c) ==
    /\ pc[c] = "queued" /\ pc'[c] # "queued" =>
           \E r \in Requests : \E session \in SessionIds \cup {NewSession} :
               /\ r.message = last_call'.message
               /\ r.image_data = last_call'.image_data
               /\ Handle(c, r, session)
    /\ pc[c] = "sleep" /\ pc'[c] = "idle" => Answered(c, chat_answer(c))
    /\ pc[c] = "generate" /\ pc'[c] = "idle" =>
           \E response \in GeneratorReplies : Answer(c, fast_mcp, response, now)

\* C23: whatever the persistence calls do (not connected, succeed, raise),
\* every step of chat gives the reply, the flag and the tracker that chat
\* gives with the persistence calls left out.
C23_PersistenceOptional == [][\A c \in Clients : WithoutPersistence(c)]_vars

\* saving the reply has raised, and the reply has been recorded and delivered
C23_Witness ==
    /\ last_call.op = "save_message"
    /\ last_call.role = "assistant"
    /\ last_call.result = "raised"
    /\ Len(delivered) > 0
    /\ delivered[Len(delivered)].response = last_call.message
    /\ Memory[Len(Memory)].content = last_call.message

\* the message of the request body saved, lower-cased
Sent(saved) == Lower(saved.message)

\* the message chat compares with the replies to the closing question: the
\* message of the request body saved, after the image handling, lower-cased
Compared(saved) ==
    Lower(IF saved.image_data THEN AttachImage(saved.message) ELSE saved.message)

\* the step of client c answers with the fixed text, clears the flag, calls
\* neither the tracker nor the generator and ends the request
Shortcut(c, text) ==
    /\ delivered' = Append(delivered, [response |-> text, quick_actions |-> << >>])
    /\ last_bot_message_ends_with_query_solved' = FALSE
    /\ pc'[c] = "idle"
    /\ fast_mcp' = fast_mcp

\* the step of client c out of the queue follows the closing-question protocol
\* when message is the lower-cased message of the request
ClosingProtocol(c, message) ==
    pc[c] = "queued" /\ pc'[c] # "queued" =>
        IF /\ last_bot_message_ends_with_query_solved
           /\ message \in {"no", "nope", "not really", "not yet"}
        THEN Shortcut(c, ContactBlock)
        ELSE IF /\ last_bot_message_ends_with_query_solved
                /\ message \in {"yes", "yeah", "yep", "thank you", "thanks"}
        THEN Shortcut(c, Acknowledgement)
        ELSE /\ pc'[c] = "sleep"
             /\ UNCHANGED <<last_bot_message_ends_with_query_solved, delivered, fast_mcp>>

\* a reply of a normal turn recomputes the flag
FlagRecomputed(c) ==
    pc[c] \in {"sleep", "generate"} /\ pc'[c] = "idle" =>
        /\ Delivers
        /\ last_bot_message_ends_with_query_solved' =
               EndsWith(Strip(delivered'[Len(delivered')].response), ClosingQuestion)

\* the flag is set only if the last reply of chat ended with the closing question
FlagMeansAsked ==
    last_bot_message_ends_with_query_solved =>
        /\ Len(delivered) > 0
        /\ EndsWith(Strip(delivered[Len(delivered)].response), ClosingQuestion)

\* C30 as stated: the flag is true only if the last reply of chat ended with
\* "Have I resolved your query?"; while it is true, a message equal (ignoring
\* case) to no/nope/not really/not yet gets the contact block and one equal to
\* yes/yeah/yep/thank you/thanks the acknowledgement, without a generator call
\* and with the flag cleared; any other message is processed normally and the
\* flag is recomputed from its reply.
C30_ClosingProtocol ==
    [][/\ FlagMeansAsked /\ FlagMeansAsked'
       /\ \A c \in Clients : ClosingProtocol(c, Sent(last_call')) /\ FlagRecomputed(c)]_vars

\* C30: as above, for the message as it is after the image handling: the
\* message of a request without an image, the message with the sentence about
\* the screenshot appended for a request with an image.
C30_ClosingProtocolAfterImage ==
    [][/\ FlagMeansAsked /\ FlagMeansAsked'
       /\ \A c \in Clients : ClosingProtocol(c, Compared(last_call')) /\ FlagRecomputed(c)]_vars

\* "Thanks" after the closing question has been answered with the
\* acknowledgement and the flag is cleared
C30_Witness ==
    /\ Len(delivered) = 2
    /\ EndsWith(delivered[1].response, ClosingQuestion)
    /\ delivered[2].response = Acknowledgement
    /\ last_call.op = "save_message"
    /\ last_call.message = "Thanks"
    /\ ~last_bot_message_ends_with_query_solved
    /\ Len(Memory) = 2


(***************************************************************************)
(* remove_duplicate_pricing and fix_email_format called on their own.       *)
(***************************************************************************)
\* lines of a text handed to remove_duplicate_pricing
PricingLines == <<"Free Plan: 5 scans", "Pro Plan: 50 scans", "basic reports", "">>

\* how many lines such a text has at most
MaxLines == 3

\* the texts of up to MaxLines of these lines
PricingTexts ==
    {Str(join([i \in DOMAIN choice |-> Chars(PricingLines[choice[i]])], <<"\n">>)) :
        choice \in UNION {[1..n -> DOMAIN PricingLines] : n \in 1..MaxLines}}

\* texts handed to fix_email_format
EmailTexts ==
    {"Write to support@novarsistech.com now.",
     "support@novarsistech.com",
     "Write to support@support@novarsistech.com now.",
     "Write to supportnovarsistech. Com",
     "contact us at novarsistech.com.",
     "email us at support @ novarsis tech . com",
     "Open the Reports tab.",
     ""}

\* a text is about to be handed to one of the two functions
RepairInit ==
    /\ \/ \E text \in PricingTexts :
            last_call = [op |-> "remove_duplicate_pricing", message |-> text,
                         result |-> text, first |-> None, applications |-> 0]
       \/ \E text \in EmailTexts :
            last_call = [op |-> "fix_email_format", message |-> text,
                         result |-> text, first |-> None, applications |-> 0]
    /\ fast_mcp = FastMCP
    /\ now = 0
    /\ last_bot_message_ends_with_query_solved = FALSE
    /\ platform = None
    /\ pc = [c \in Clients |-> "idle"]
    /\ session_id = [c \in Clients |-> None]
    /\ request = [c \in Clients |-> NoRequest]
    /\ loop_owner = NoClient
    /\ delivered = << >>

\* last_call after the function has returned text
Repaired(text) ==
    [last_call EXCEPT !.result = text, !.applications = @ + 1,
                      !.first = IF last_call.applications = 0 THEN text ELSE @]

\* remove_duplicate_pricing on the text, and then on what it has returned
RemoveDuplicatePricing ==
    /\ last_call.op = "remove_duplicate_pricing"
    /\ last_call.applications < 2
    /\ last_call' = Repaired(Str(remove_duplicate_pricing(Chars(last_call.result))))
    /\ UNCHANGED <<fast_mcp, now>>
    /\ UNCHANGED chat_vars

\* fix_email_format on the text, and then on what it has returned
FixEmailFormat ==
    /\ last_call.op = "fix_email_format"
    /\ last_call.applications < 2
    /\ last_call' = Repaired(Str(fix_email_format(Chars(last_call.result))))
    /\ UNCHANGED <<fast_mcp, now>>
    /\ UNCHANGED chat_vars

RepairNext == RemoveDuplicatePricing \/ FixEmailFormat

SpecRepair == RepairInit /\ [][RepairNext]_vars


(***************************************************************************)
(* Properties of the two functions                                         *)
(***************************************************************************)
\* the lines of a text that are to stay when the first block of each plan is
\* kept and each later block of a plan already seen goes, header and lines up
\* to the next header or blank line; dropping says that such a block is open
RECURSIVE first_blocks(_, _, _, _, _)
first_blocks(lines, i, seen_plans, dropping, kept) ==
    IF i > Len(lines) THEN kept
    ELSE LET line == lines[i]
             plan == plan_of(strip(to_lower(line)))
         IN IF plan # None
            THEN IF plan \notin seen_plans
                 THEN first_blocks(lines, i + 1, seen_plans \cup {plan}, FALSE, Append(kept, line))
                 ELSE first_blocks(lines, i + 1, seen_plans, TRUE, kept)
            ELSE IF Len(strip(line)) = 0
            THEN first_blocks(lines, i + 1, seen_plans, FALSE, Append(kept, line))
            ELSE IF dropping
            THEN first_blocks(lines, i + 1, seen_plans, TRUE, kept)
            ELSE first_blocks(lines, i + 1, seen_plans, FALSE, Append(kept, line))

\* C25: remove_duplicate_pricing keeps the first header of each plan with its
\* lines, drops each later header of a plan it has seen with all the lines up
\* to the next header or blank line, and keeps every line outside a block.
C25_FirstBlocksOnly ==
    last_call.op = "remove_duplicate_pricing" /\ last_call.applications = 1 =>
        last_call.result =
            Str(join(first_blocks(split(Chars(last_call.message), <<"\n">>), 1, {}, FALSE, << >>),
                     <<"\n">>))


\* the text has the support address, and has it once only where it has it
HasCorrectAddress(t) ==
    /\ contains(t, "support@novarsistech.com")
    /\ ~contains(to_lower(t), "support@support@")

\* C27: fix_email_format returns a text that has the correct support address
\* unchanged, and applied to what it has returned it returns the same again.
C27_RepairIsStable ==
    last_call.op = "fix_email_format" =>
        /\ last_call.applications >= 1 /\ HasCorrectAddress(Chars(last_call.message))
              => last_call.result = last_call.message
        /\ last_call.applications = 2 => last_call.result = last_call.first

====
